---- MODULE Spec2Model ----
(***************************************************************************)
(* A model of rossum.lib.api_client.APIClient: lazy token authentication,  *)
(* the tenacity retry wrapper around every HTTP call, the status check of  *)
(* _request_url, get_paginated, logout and the context-manager scope.      *)
(* The remote service and the network are the environment: every HTTP call *)
(* is answered by a nondeterministically chosen outcome.                   *)
(* The functions of rossum.lib.sideloading and _resolve_sideloads are      *)
(* applied to inputs of their own under SideloadSpec.                      *)
(*                                                                         *)
(* Record constructors list their fields, and set enumerations their       *)
(* elements, in the order in which the names first occur in the module.    *)
(***************************************************************************)
EXTENDS Integers, Sequences, FiniteSets, TLC

VARIABLES
    auth_using_token, \* APIClient._auth_using_token
    attempts_no,      \* retry_logic_rules["attempts"]
    token,            \* APIClient.token
    scope,            \* the with-block around the client
    exitLogouts,      \* logout() invocations made by __exit__
    exitPath,         \* how the body of the with-block was left
    pc,               \* position of the running call
    op,               \* the running public operation and its current request
    attempt,          \* attempt_number of the retry around _do_request
    lattempt,         \* attempt_number of the retry around _login_to_api
    now,              \* seconds since the retry around _do_request started
    lstart,           \* value of now when the retry around _login_to_api started
    sent,             \* the HTTP calls the running (or last) _request_url made, in order
    lastSent,         \* the HTTP call put on the wire last
    lastOutcome,      \* what the last HTTP call of the running public operation ended in
    trail,            \* where each _do_request attempt of the running _request_url ended
    lastLogin,        \* key returned by the last successful login, None before
    res,              \* get_paginated's res: the first page, extended by the later ones
    response_dict,    \* get_paginated's response_dict: the page fetched last
    served,           \* the records the service has served to the running get_paginated
    npages,           \* pages the service has served to the running get_paginated
    ret,              \* what the last finished public operation gave its caller
    args,             \* the query and sideloads arguments of the last get_paginated call
    callerQuery,      \* the caller's query dict as that call left it
    scenario,         \* what is exercised: the client, or one function of sideloading
    theQuery,         \* the dict handed to setup_query, which writes to it
    theObjects,       \* the list of related objects handed to get_mapping
    theMapping,       \* the dict the last get_mapping returned
    theResponse,      \* the dict handed to _resolve_sideloads, which writes to it
    theSideload,      \* the descriptor of the last sideloading call
    raised,           \* what each sideloading call made so far raised, None if nothing
    before,           \* the query and the response as they were before the last call
    theArgument,      \* the argument handed to a helper function
    theResult,        \* what the helper function returned for it
    threads,          \* where each of the threads sharing the client is in its request
    logins,           \* the threads whose login call was sent, in the order of the calls
    operation,        \* the running (or last) RossumClient operation with its arguments
    payload,          \* the data or files its last request carried
    progress,         \* how far that operation has come
    paging,           \* the locals of the running (or last) sideloaded get_paginated
    sideloading       \* the locals of the running (or last) _sideload

vars == <<auth_using_token, attempts_no, token, scope, exitLogouts, exitPath, pc, op,
          attempt, lattempt, now, lstart, sent, lastSent, lastOutcome, trail,
          lastLogin, res, response_dict, served, npages, ret, args, callerQuery,
          scenario, theQuery, theObjects, theMapping, theResponse, theSideload,
          raised, before, theArgument, theResult, threads, logins, operation, payload,
          progress, paging, sideloading>>

(* The variables of the client and those of the sideloading functions *)
cvars == <<auth_using_token, attempts_no, token, scope, exitLogouts, exitPath, pc, op,
           attempt, lattempt, now, lstart, sent, lastSent, lastOutcome, trail,
           lastLogin, res, response_dict, served, npages, ret, args, callerQuery>>
sidevars == <<scenario, theQuery, theObjects, theMapping, theResponse, theSideload,
             raised, before>>
hvars == <<theArgument, theResult>>
rvars == <<threads, logins>>
dvars == <<operation, payload, progress>>
pvars == <<paging, sideloading>>
svars == <<sidevars, hvars, rvars, dvars, pvars>>

----------------------------------------------------------------------------
(* Bounds of the model *)

MaxAttempts == 2     \* largest configured retry_logic_rules["attempts"]
MaxPages == 2        \* longest chain of pages the service serves
MaxPageLen == 2      \* most records in one page
MaxTotal == 1        \* largest pagination.total the service reports
SlowFailure == 60    \* seconds a slowly failing HTTP call takes before it fails

(* Program constants *)

wait_s == 5          \* retry_logic_rules.get("wait_s", 5)
StopDelay == 55      \* stop_after_delay(55)

None == "None"
Keys == {"k1", "k2"}

(* URLs: a path under the API's base URL and the page a next link asks for *)
Url(path, page) == [path |-> path, page |-> page]
NullUrl == Url("", 0)
LOGIN_URL == Url("auth/login", 0)
LOGOUT_URL == Url("auth/logout", 0)
OBJ_URL == Url("objects", 0)

(* A public operation with the request it is making *)
NoOp == [name |-> "idle", method |-> "get", url |-> NullUrl, expected |-> 0]

(* One HTTP call as it goes on the wire *)
NoAuth == [scheme |-> "none", credentials |-> None]
HttpCall(url, auth) == [url |-> url, auth |-> auth]
NoCall == [url |-> NullUrl, auth |-> NoAuth]

(* A comma-joined query parameter, as the items between its commas: the    *)
(* empty string is one empty item.  A key the query does not hold is       *)
(* not present.                                                            *)
Absent == [present |-> FALSE, items |-> <<>>]
Param(items) == [present |-> TRUE, items |-> items]

(* A query dict: its "sideload" and its "content.schema_id" entries *)
Query(sideload, schema_id) == [sideload |-> sideload, schema_id |-> schema_id]
EmptyQuery == Query(Absent, Absent)

(* Sideload(plural, singular) and Content(plural, singular, schema_ids) *)
Sideload(plural, singular) ==
    [plural |-> plural, singular |-> singular, class |-> "Sideload", schema_ids |-> <<>>]
Content(plural, singular, schema_ids) ==
    [plural |-> plural, singular |-> singular, class |-> "Content",
     schema_ids |-> schema_ids]

(* No descriptor *)
NoSideload == Sideload(None, None)

(* The arguments of get_paginated *)
NoArgs == [query |-> EmptyQuery, sideloads |-> <<>>]

----------------------------------------------------------------------------
(* The environment: what one HTTP call can end in *)

NoOutcome == [kind |-> "none", cls |-> None, status |-> 0, text |-> ""]
OutcomeOf(o) ==
    IF o.kind = "exc"
    THEN [NoOutcome EXCEPT !.kind = "exc", !.cls = o.cls]
    ELSE [NoOutcome EXCEPT !.kind = "resp", !.status = o.status, !.text = o.text]

(* "retry": the exception types the tenacity rules retry *)
RetriedTypes ==
    {"ProxyError", "ConnectionError", "NewConnectionError", "ConnectTimeoutError"}

ExcClasses == {"ProxyError", "ConnectionError", "ReadTimeout"}
NetworkFailures ==
    [kind : {"exc"}, cls : ExcClasses, dur : {0}]
    \cup [kind : {"exc"}, cls : {"ConnectionError"}, dur : {SlowFailure}]

(* Response bodies *)
KeyBody(k) == CASE k = "k1" -> "{key: k1}" [] k = "k2" -> "{key: k2}"
Html == "<html>"
Detail == "{detail}"
Empty == "{}"
PageText == "{results, pagination}"
LoginResponses ==
    {[kind |-> "resp", status |-> 200, text |-> KeyBody(k), key |-> k] : k \in Keys}
    \cup [kind : {"resp"}, status : {200}, text : {Html}, key : {None}]
    \cup [kind : {"resp"}, status : {400, 401}, text : {Detail}, key : {None}]

(* response.json() of a response: a page of a paginated endpoint, or not *)
NoDict == [results |-> <<>>, pagination |-> [next |-> NullUrl, total |-> 0]]
NoPage == [results |-> <<>>, pagination |-> [next |-> NullUrl, total |-> 0],
           json |-> FALSE]
Statuses == {200, 201, 204, 500}
PlainResponses ==
    [kind : {"resp"}, status : Statuses \ {500}, text : {Empty}, content : {NoPage}]
    \cup [kind : {"resp"}, status : {200, 500}, text : {Html}, content : {NoPage}]

Page(first, len, next, total) ==
    [results |-> [i \in 1..len |-> first + i - 1],
     pagination |-> [next |-> next, total |-> total], json |-> TRUE]

----------------------------------------------------------------------------
(* Exceptions and return values.  "at" is the position in sent of the HTTP *)
(* call that produced the value, which tells one attempt's error or        *)
(* response from another's.                                                *)

NoExc == [cls |-> None, status |-> 0, msg |-> <<>>, at |-> 0]
NetworkError(cls, at) == [cls |-> cls, status |-> 0, msg |-> <<cls>>, at |-> at]
RossumException(message, status, at) ==
    [cls |-> "RossumException", status |-> status, msg |-> message, at |-> at]
ValueError(cls, text, at) == [cls |-> cls, status |-> 0, msg |-> <<text>>, at |-> at]
(* f"Invalid response [{response.url}]: {response.text}", as its parts *)
InvalidResponse(url, text) == <<"Invalid response [", url, "]: ", text>>
LoginFailed == <<"Login failed with the provided credentials.">>

NoReturn == [kind |-> "none", status |-> 0, text |-> "", exc |-> NoExc, total |-> 0,
             at |-> 0, list |-> <<>>]
Raised(exc) == [NoReturn EXCEPT !.kind = "raised", !.exc = exc]
Returned(resp, at) ==
    [NoReturn EXCEPT !.kind = "ok", !.status = resp.status, !.text = resp.text, !.at = at]
ReturnedList(list, total) ==
    [NoReturn EXCEPT !.kind = "ok", !.list = list, !.total = total]
ReturnedNone == [NoReturn EXCEPT !.kind = "ok"]

----------------------------------------------------------------------------
(* Retry policy: the tenacity rules built by get_retry_logic *)

(* A retry rule that retries whatever was raised *)
retry_if_exception(cls) == TRUE

(* "retry": retry_if_exception_type(...) | ... *)
retry_if(cls) == cls \in RetriedTypes

(* A stop rule that allows one attempt more than configured *)
stop_after_one_more(attempt_number, seconds_since_start) ==
    \/ attempt_number > attempts_no
    \/ seconds_since_start >= StopDelay

(* A stop rule without the overall deadline *)
stop_without_deadline(attempt_number, seconds_since_start) ==
    attempt_number >= attempts_no

(* "stop": stop_after_attempt(attempts_no) | stop_after_delay(55) *)
stop(attempt_number, seconds_since_start) ==
    \/ attempt_number >= attempts_no
    \/ seconds_since_start >= StopDelay

(* What tenacity raises on exhaustion when reraise is not set *)
RetryError(exc) == [cls |-> "RetryError", status |-> 0, msg |-> <<exc.cls>>, at |-> exc.at]

(* "reraise": True -- the exception of the last attempt, not a RetryError *)
reraise(exc) == exc

----------------------------------------------------------------------------
(* How a step of the running call ends *)

(* The public operation returns r to, or raises it in, its caller.  When   *)
(* the operation is the logout made by __exit__, the with-block is left.   *)
Leave(r) ==
    /\ pc' = "idle"
    /\ ret' = r
    /\ scope' = IF scope = "exiting" THEN "exited" ELSE scope

(* _request_url, lines 206-207: one attempt of _do_request raised exc at   *)
(* time t.  The retry wrapper either waits and calls _do_request again or  *)
(* lets the exception reach the caller of the public operation.            *)
AttemptRaised(exc, t, by) ==
    /\ trail' = Append(trail, by)
    /\ IF retry_if(exc.cls) /\ ~stop(attempt, t)
       THEN /\ pc' = "auth"
            /\ attempt' = attempt + 1
            /\ now' = t + wait_s
            /\ UNCHANGED <<ret, scope>>
       ELSE /\ Leave(Raised(IF retry_if(exc.cls) THEN reraise(exc) ELSE exc))
            /\ now' = t
            /\ UNCHANGED attempt

(* _request_url is entered for one request of the running operation *)
EnterRequestUrl(o) ==
    /\ op' = o
    /\ pc' = "auth"
    /\ attempt' = 1
    /\ now' = 0
    /\ trail' = <<>>
    /\ sent' = <<>>

(* expected_status_code of post / patch / get / get_url / delete_url *)
DefaultStatus(method) ==
    CASE method = "get" -> 200
      [] method = "post" -> 201
      [] method = "patch" -> 200
      [] method = "delete" -> 204

----------------------------------------------------------------------------
(* The response dict of _resolve_sideloads: its "results" and the related  *)
(* objects it holds under the plural keys "content" and "tests"            *)
Response(results, content, tests) ==
    [results |-> results, content |-> content, tests |-> tests]
NoResponse == Response(<<>>, <<>>, <<>>)

(* The arguments a sideloading call may write to, as they were given *)
Before(query, response) == [query |-> query, response |-> response]

(* A client on which no operation has been called *)
ClientIdle ==
    /\ token = None
    /\ scope = "none"
    /\ exitLogouts = 0
    /\ exitPath = None
    /\ pc = "idle"
    /\ op = NoOp
    /\ attempt = 0
    /\ lattempt = 0
    /\ now = 0
    /\ lstart = 0
    /\ sent = <<>>
    /\ lastSent = NoCall
    /\ lastOutcome = NoOutcome
    /\ trail = <<>>
    /\ lastLogin = None
    /\ res = NoDict
    /\ response_dict = NoDict
    /\ served = <<>>
    /\ npages = 0
    /\ ret = NoReturn
    /\ args = NoArgs
    /\ callerQuery = EmptyQuery

(* No sideloading function is exercised on its own *)
NoSideloading ==
    /\ scenario = "client"
    /\ theQuery = EmptyQuery
    /\ theObjects = <<>>
    /\ theMapping = <<>>
    /\ theResponse = NoResponse
    /\ theSideload = NoSideload
    /\ raised = <<>>
    /\ before = Before(theQuery, theResponse)

(* No helper function is exercised on its own *)
NoHelper ==
    /\ theArgument = None
    /\ theResult = None

(* No threads share the client *)
NoThreads ==
    /\ threads = <<>>
    /\ logins = <<>>

(* No RossumClient operation has been called *)
NoOperation == [name |-> None]
NoPayload == [kind |-> "none"]
NoProgress == [running |-> FALSE, requests |-> 0, todo |-> <<>>, echoed |-> <<>>,
               fetched |-> <<>>, elapsed |-> 0]
NoDomain ==
    /\ operation = NoOperation
    /\ payload = NoPayload
    /\ progress = NoProgress

(* The query argument of get_paginated: a mapping of the caller, or None *)
QueryArg(query) == [query |-> query, given |-> TRUE]
NoQueryArg == [query |-> EmptyQuery, given |-> FALSE]

(* The dict of one page: its results, the related objects sideloaded with  *)
(* them under "content" and "tests", and its pagination block              *)
PageDict(results, content, tests, next) ==
    [results |-> results, pagination |-> [next |-> next, total |-> Len(results)],
     content |-> content, tests |-> tests]
NoPageDict == PageDict(<<>>, <<>>, <<>>, NullUrl)

(* No get_paginated with sideloads and no _sideload has been called *)
NoGetPaginated ==
    [pc |-> "idle", res |-> NoPageDict, response_dict |-> NoPageDict, ret |-> NoReturn,
     path |-> "", query |-> EmptyQuery, sideloads |-> <<>>, requests |-> <<>>,
     given |-> NoQueryArg, caller |-> EmptyQuery, pages |-> <<>>]
NoSideloadCall ==
    [pc |-> "idle", ret |-> NoReturn, objects |-> <<>>, sideloads |-> <<>>,
     response |-> NoResponse, requests |-> 0, fetched |-> <<>>]
NoPaging ==
    /\ paging = NoGetPaginated
    /\ sideloading = NoSideloadCall

Init ==
    /\ auth_using_token \in BOOLEAN
    /\ attempts_no \in 1..MaxAttempts
    /\ ClientIdle
    /\ NoSideloading
    /\ NoHelper
    /\ NoThreads
    /\ NoDomain
    /\ NoPaging

(* A request method of the client (get, post, delete_url, get_paginated)   *)
(* is entered: its first _request_url begins                               *)
Begin(o) ==
    /\ EnterRequestUrl(o)
    /\ lastOutcome' = NoOutcome
    /\ ret' = NoReturn
    /\ res' = NoDict
    /\ response_dict' = NoDict
    /\ served' = <<>>
    /\ npages' = 0
    /\ UNCHANGED <<auth_using_token, attempts_no, token, lattempt, lstart, lastSent,
                   lastLogin>>

(* A public operation starts with its first _request_url *)
Start(o) ==
    /\ Begin(o)
    /\ UNCHANGED svars

(* A public operation is called on the idle client by its user *)
Call(o) ==
    /\ pc = "idle"
    /\ scope \in {"none", "body"}
    /\ Start(o)
    /\ args' = NoArgs
    /\ callerQuery' = EmptyQuery
    /\ UNCHANGED <<scope, exitLogouts, exitPath>>

(* post / patch / get / get_url / delete_url with their default status *)
request(method) ==
    Call([name |-> "request", method |-> method, url |-> OBJ_URL,
          expected |-> DefaultStatus(method)])

(* self.get(path, query), the first request of get_paginated *)
PaginatedOp == [name |-> "get_paginated", method |-> "get", url |-> OBJ_URL,
                expected |-> DefaultStatus("get")]

(* "sideloading cannot be specified both in query and sideloads" *)
AmbiguousSideloading ==
    <<"sideloading cannot be specified both in query and sideloads">>

(* A get_paginated that takes sideloads from the query and from the argument *)
never_ambiguous(query, sideloads) == FALSE

(* get_paginated, lines 240-241: if sideloads: if "sideload" in query *)
ambiguous(query, sideloads) == sideloads # <<>> /\ query.sideload.present

(* get_paginated(path, query, sideloads=sideloads): refused before any     *)
(* request when the sideloads are given twice, its first page requested    *)
(* otherwise.  Neither path writes to the caller's query.                  *)
get_paginated(query, sideloads) ==
    /\ pc = "idle"
    /\ scope \in {"none", "body"}
    /\ args' = [query |-> query, sideloads |-> sideloads]
    /\ callerQuery' = query
    /\ IF ambiguous(query, sideloads)
       THEN /\ op' = PaginatedOp
            /\ ret' = Raised(RossumException(AmbiguousSideloading, 0, 0))
            /\ sent' = <<>>
            /\ trail' = <<>>
            /\ lastOutcome' = NoOutcome
            /\ res' = NoDict
            /\ response_dict' = NoDict
            /\ served' = <<>>
            /\ npages' = 0
            /\ UNCHANGED <<auth_using_token, attempts_no, token, pc, attempt, lattempt,
                           now, lstart, lastSent, lastLogin>>
            /\ UNCHANGED svars
       ELSE Start(PaginatedOp)
    /\ UNCHANGED <<scope, exitLogouts, exitPath>>

(* self.post("auth/logout", {}, expected_status_code=200) *)
LogoutOp == [name |-> "logout", method |-> "post", url |-> LOGOUT_URL, expected |-> 200]

(* logout() returns at once when the client does not authenticate by token *)
LogoutNoop ==
    /\ op' = LogoutOp
    /\ ret' = ReturnedNone
    /\ sent' = <<>>
    /\ lastOutcome' = NoOutcome
    /\ UNCHANGED <<auth_using_token, attempts_no, token, pc, attempt, lattempt, now,
                   lstart, lastSent, trail, lastLogin, res, response_dict, served,
                   npages>>
    /\ UNCHANGED svars

(* A logout() that posts to auth/logout whatever the authentication mode *)
LogoutAlways == Call(LogoutOp)

(* logout(): a post to auth/logout in token mode, nothing otherwise *)
logout ==
    IF auth_using_token
    THEN Call(LogoutOp)
    ELSE /\ pc = "idle"
         /\ scope \in {"none", "body"}
         /\ LogoutNoop
         /\ args' = NoArgs
         /\ callerQuery' = EmptyQuery
         /\ UNCHANGED <<scope, exitLogouts, exitPath>>

(* with RossumClient(...) as rossum: AbstractContextManager.__enter__ *)
__enter__ ==
    /\ pc = "idle"
    /\ scope = "none"
    /\ op = NoOp
    /\ scope' = "body"
    /\ UNCHANGED <<auth_using_token, attempts_no, token, exitLogouts, exitPath, pc, op,
                   attempt, lattempt, now, lstart, sent, lastSent, lastOutcome, trail,
                   lastLogin, res, response_dict, served, npages, ret, args,
                   callerQuery>>
    /\ UNCHANGED svars

(* The paths on which the body of a with-block is left *)
ExitPaths == {"normal", "return", "exception", "failed request", "failed login"}

(* Can the body of the with-block be left on path?  It completes, returns  *)
(* early or raises at any point; a failed request or login is the last     *)
(* operation of the body having raised, the body not catching it.          *)
PathTaken(path) ==
    CASE path = "failed request" ->
             ret.kind = "raised" /\ Len(sent) > 0 /\ lastSent.url # LOGIN_URL
      [] path = "failed login" ->
             ret.kind = "raised" /\ Len(sent) > 0 /\ lastSent.url = LOGIN_URL
      [] OTHER -> TRUE

(* The body of the with-block was left on path and logout() is called *)
ExitLogout(path) ==
    /\ pc = "idle"
    /\ scope = "body"
    /\ PathTaken(path)
    /\ exitPath' = path
    /\ exitLogouts' = exitLogouts + 1
    /\ args' = NoArgs
    /\ callerQuery' = EmptyQuery
    /\ IF auth_using_token
       THEN /\ scope' = "exiting"
            /\ Start(LogoutOp)
       ELSE /\ scope' = "exited"
            /\ LogoutNoop

(* An __exit__ that logs out only when the body raised nothing *)
ExitUnlessException(path) ==
    IF path \in {"normal", "return"}
    THEN ExitLogout(path)
    ELSE /\ pc = "idle"
         /\ scope = "body"
         /\ PathTaken(path)
         /\ exitPath' = path
         /\ scope' = "exited"
         /\ UNCHANGED <<auth_using_token, attempts_no, token, exitLogouts, pc, op,
                        attempt, lattempt, now, lstart, sent, lastSent, lastOutcome,
                        trail, lastLogin, res, response_dict, served, npages, ret,
                        args, callerQuery>>
         /\ UNCHANGED svars

(* __exit__(exc_type, exc_value, traceback): self.logout(), whatever the   *)
(* path (normal completion, early return, exception) the body was left on  *)
__exit__(path) == ExitLogout(path)

(* An _authentication that calls get_token() for every request *)
AlwaysLogin == auth_using_token

(* An _authentication that does not log in again once a login was tried *)
login_tried_once == auth_using_token /\ token = None /\ lastSent.url # LOGIN_URL

(* An _authentication that lets logout() through without a token *)
login_unless_logout == auth_using_token /\ token = None /\ op.name # "logout"

(* _authentication, lines 309-310: is get_token() called first? *)
needs_login == auth_using_token /\ token = None

(* _do_request, line 190: auth = self._authentication.  With no token      *)
(* cached in token mode the property calls get_token() first.              *)
_authentication ==
    /\ pc = "auth"
    /\ IF needs_login
       THEN /\ pc' = "login"
            /\ lattempt' = 1
            /\ lstart' = now
       ELSE /\ pc' = "send"
            /\ UNCHANGED <<lattempt, lstart>>
    /\ UNCHANGED <<auth_using_token, attempts_no, token, scope, exitLogouts, exitPath, op,
                   attempt, now, sent, lastSent, lastOutcome, trail, lastLogin,
                   res, response_dict, served, npages, ret, args, callerQuery>>
    /\ UNCHANGED svars

(* requests.Response.ok: no 4xx or 5xx status *)
ok(status) == status < 400

(* get_token, lines 153-158: the checks of the login response *)
login_accepted(status) == status # 401 /\ ok(status)

(* RossumException.status_code: self.response.status_code if             *)
(* self.response else 400.  An exception raised without a response has     *)
(* status 0 here; the truth value of a requests.Response is its ok.        *)
status_code(exc) == IF exc.status # 0 /\ ok(exc.status) THEN exc.status ELSE 400

(* A get_token without the 401 branch: every refusal is an invalid response *)
InvalidLoginResponse(status, text) == InvalidResponse(LOGIN_URL, text)

login_error(status, text) ==
    IF status = 401 THEN LoginFailed ELSE InvalidResponse(LOGIN_URL, text)

(* response.json()["key"] of a login response *)
has_key(text) == \E k \in Keys : KeyBody(k) = text
response_key(text) == CHOOSE k \in Keys : KeyBody(k) = text

(* get_token: one call of _login_to_api under its own retry wrapper, then  *)
(* the checks of the response; the key it returns is cached by             *)
(* _authentication (self.token = self.get_token()).                        *)
get_token(o) ==
    /\ pc = "login"
    /\ sent' = Append(sent, HttpCall(LOGIN_URL, NoAuth))
    /\ lastSent' = HttpCall(LOGIN_URL, NoAuth)
    /\ lastOutcome' = OutcomeOf(o)
    /\ LET at == Len(sent) + 1 IN
       \/ /\ o.kind = "exc"
          /\ retry_if(o.cls) /\ ~stop(lattempt, now + o.dur - lstart)
          /\ lattempt' = lattempt + 1
          /\ now' = now + o.dur + wait_s
          /\ UNCHANGED <<token, lastLogin, pc, attempt, trail, ret, scope>>
       \/ /\ o.kind = "exc"
          /\ ~(retry_if(o.cls) /\ ~stop(lattempt, now + o.dur - lstart))
          /\ AttemptRaised(IF retry_if(o.cls) THEN reraise(NetworkError(o.cls, at))
                           ELSE NetworkError(o.cls, at), now + o.dur, "login")
          /\ UNCHANGED <<token, lastLogin, lattempt>>
       \/ /\ o.kind = "resp"
          /\ ~login_accepted(o.status)
          /\ AttemptRaised(RossumException(login_error(o.status, o.text), o.status, at),
                           now, "login")
          /\ UNCHANGED <<token, lastLogin, lattempt>>
       \/ /\ o.kind = "resp"
          /\ login_accepted(o.status) /\ ~has_key(o.text)
          /\ AttemptRaised(ValueError("JSONDecodeError", o.text, at), now, "login")
          /\ UNCHANGED <<token, lastLogin, lattempt>>
       \/ /\ o.kind = "resp"
          /\ login_accepted(o.status) /\ has_key(o.text)
          /\ token' = response_key(o.text)
          /\ lastLogin' = o.key
          /\ pc' = "send"
          /\ UNCHANGED <<lattempt, now, attempt, trail, ret, scope>>
    /\ UNCHANGED <<auth_using_token, attempts_no, exitLogouts, exitPath, op, lstart,
                   res, response_dict, served, npages, args, callerQuery>>
    /\ UNCHANGED svars

(* An _authentication that gives every request the basic-auth credentials *)
BasicAuthOf(tok) == [scheme |-> "Basic", credentials |-> "user:password"]

(* The Authorization header (or basic auth) _authentication gives a request *)
AuthOf(tok) ==
    IF auth_using_token
    THEN [scheme |-> "Token", credentials |-> tok]
    ELSE [scheme |-> "Basic", credentials |-> "user:password"]

(* An extend that puts the later page in front *)
prepend(acc, v) == v \o acc

(* res.setdefault(k, []).extend(v) *)
extend(acc, v) == acc \o v

(* A total read from the first page's pagination block *)
first_total(first, last) == first.pagination.total

(* return res[key], response_dict["pagination"]["total"] *)
returned_total(first, last) == last.pagination.total

(* The URL the service gives as pagination.next of its n-th page *)
NextUrl(n) == Url(op.url.path, n + 1)

(* The pages the service may answer the next page request with: it numbers *)
(* the records in the order it serves them.                                *)
PageResponses ==
    IF op.name = "get_paginated"
    THEN [kind : {"resp"}, status : {200}, text : {PageText},
          content : {Page(Len(served) + 1, len, next, total) :
                       len \in 0..MaxPageLen, total \in 0..MaxTotal,
                       next \in {NullUrl} \cup (IF npages + 1 < MaxPages
                                                THEN {NextUrl(npages + 1)} ELSE {})}]
    ELSE {}

(* A status check that lets every 2xx status pass *)
any_success(status, expected) == status >= 200 /\ status < 300

(* The status check of _request_url, lines 208-211 *)
status_accepted(status, expected) == status = expected

(* _do_request under the retry wrapper of _request_url, the status check   *)
(* of _request_url, and what the public operation does with the response.  *)
_request_url(o) ==
    /\ pc = "send"
    /\ lastSent' = HttpCall(op.url, AuthOf(token))
    /\ lastOutcome' = OutcomeOf(o)
    /\ LET at == Len(sent) + 1
           logged == Append(sent, HttpCall(op.url, AuthOf(token)))
       IN
       \/ /\ o.kind = "exc"
          /\ sent' = logged
          /\ AttemptRaised(NetworkError(o.cls, at), now + o.dur, "endpoint")
          /\ UNCHANGED <<op, res, response_dict, served, npages>>
       \/ /\ o.kind = "resp"
          /\ ~status_accepted(o.status, op.expected)
          /\ sent' = logged
          /\ trail' = Append(trail, "endpoint")
          /\ Leave(Raised(RossumException(InvalidResponse(op.url, o.text), o.status, at)))
          /\ UNCHANGED <<op, attempt, now, res, response_dict, served, npages>>
       \/ /\ o.kind = "resp"
          /\ status_accepted(o.status, op.expected)
          /\ op.name # "get_paginated"
          /\ sent' = logged
          /\ trail' = Append(trail, "endpoint")
          /\ Leave(Returned(o, at))
          /\ UNCHANGED <<op, attempt, now, res, response_dict, served, npages>>
       \/ /\ o.kind = "resp"
          /\ status_accepted(o.status, op.expected)
          /\ op.name = "get_paginated"
          /\ ~o.content.json
          /\ sent' = logged
          /\ trail' = Append(trail, "endpoint")
          /\ Leave(Raised(ValueError(IF o.text = Empty THEN "KeyError"
                                     ELSE "JSONDecodeError", o.text, at)))
          /\ UNCHANGED <<op, attempt, now, res, response_dict, served, npages>>
       \/ /\ o.kind = "resp"
          /\ status_accepted(o.status, op.expected)
          /\ op.name = "get_paginated"
          /\ o.content.json
          /\ served' = served \o o.content.results
          /\ npages' = npages + 1
          /\ response_dict' = [results |-> o.content.results,
                               pagination |-> o.content.pagination]
          /\ res' = IF npages = 0
                    THEN [results |-> o.content.results,
                          pagination |-> o.content.pagination]
                    ELSE [res EXCEPT !.results = extend(res.results, o.content.results)]
          /\ IF o.content.pagination.next # NullUrl
             THEN /\ EnterRequestUrl([op EXCEPT !.url = o.content.pagination.next])
                  /\ UNCHANGED <<ret, scope>>
             ELSE /\ sent' = logged
                  /\ trail' = Append(trail, "endpoint")
                  /\ Leave(ReturnedList(res'.results, returned_total(res', response_dict')))
                  /\ UNCHANGED <<op, attempt, now>>
    /\ UNCHANGED <<auth_using_token, attempts_no, token, exitLogouts, exitPath, lattempt,
                   lstart, lastLogin, args, callerQuery>>
    /\ UNCHANGED svars

Methods == {"get", "post", "patch", "delete"}

(* The calls of get_paginated made on the client: without query and        *)
(* sideloads, and with a sideload descriptor on top of a raw sideload      *)
(* parameter in the query.                                                 *)
WORKSPACES == Sideload("workspaces", "workspace")
PaginatedCalls ==
    {NoArgs,
     [query |-> Query(Param(<<"workspaces">>), Absent), sideloads |-> <<WORKSPACES>>]}

Next ==
    \/ \E m \in Methods : request(m)
    \/ \E a \in PaginatedCalls : get_paginated(a.query, a.sideloads)
    \/ logout
    \/ __enter__
    \/ \E path \in ExitPaths : __exit__(path)
    \/ _authentication
    \/ \E o \in NetworkFailures \cup LoginResponses : get_token(o)
    \/ \E o \in NetworkFailures \cup PlainResponses \cup PageResponses : _request_url(o)

Spec == Init /\ [][Next]_vars

----------------------------------------------------------------------------
(* Sideloading: rossum.lib.sideloading and APIClient._resolve_sideloads *)

MaxItems == 2        \* most entries of a comma-joined query parameter given to setup_query
MaxObjects == 3      \* most related objects given to get_mapping
MaxRelated == 2      \* most related objects held by the response of _resolve_sideloads
MaxResults == 2      \* most records in the results of that response
MaxRefs == 2         \* most references in the plural field of a record
MaxCalls == 2        \* most calls of one sideloading function on the same data

(* Is x an element of the list? *)
In(x, list) == \E i \in 1..Len(list) : list[i] = x

(* The elements of a list *)
Range(list) == {list[i] : i \in 1..Len(list)}

(* All lists of at least lo and at most hi elements of S *)
Lists(S, lo, hi) == UNION {[1..n -> S] : n \in lo..hi}

(* str.strip() on the entries the model gives to setup_query *)
strip(item) ==
    CASE item = " documents" -> "documents"
      [] item = " order_id" -> "order_id"
      [] OTHER -> item

(* [item.strip() for item in array.split(",") if item.strip()] *)
RECURSIVE _parse_query_array(_)
_parse_query_array(array) ==
    IF array = <<>> THEN <<>>
    ELSE IF strip(Head(array)) = "" THEN _parse_query_array(Tail(array))
    ELSE <<strip(Head(array))>> \o _parse_query_array(Tail(array))

(* query.get(key, ""), split at the commas *)
get_array(param) == IF param.present THEN param.items ELSE <<"">>

(* ",".join(list), split at the commas *)
join(list) == IF list = <<>> THEN <<"">> ELSE list

(* A list.append made whether or not the item is in the list *)
append_always(list, item) == Append(list, item)

(* if item not in list: list.append(item) *)
append_new(list, item) == IF In(item, list) THEN list ELSE Append(list, item)

(* for schema_id in self.schema_ids: append it if it is not in the list *)
RECURSIVE append_all_new(_, _)
append_all_new(list, schema_ids) ==
    IF schema_ids = <<>> THEN list
    ELSE append_all_new(append_new(list, Head(schema_ids)), Tail(schema_ids))

(* Sideload.setup_query(query), as the query it leaves *)
Sideload_setup_query(self, query) ==
    LET query_sideloads == _parse_query_array(get_array(query.sideload))
    IN  [query EXCEPT !.sideload = Param(join(append_new(query_sideloads, self.plural)))]

(* A Content.setup_query that goes on without schema ids *)
always_effective(self) == TRUE

(* Content.setup_query, line 41: not (not self.schema_ids) *)
has_schema_ids(self) == self.schema_ids # <<>>

(* Content.setup_query(query), as the query it leaves *)
Content_setup_query(self, query) ==
    IF ~has_schema_ids(self) THEN query
    ELSE LET q == Sideload_setup_query(self, query)
             query_schema_ids == _parse_query_array(get_array(q.schema_id))
         IN  [q EXCEPT !.schema_id =
                  Param(join(append_all_new(query_schema_ids, self.schema_ids)))]

(* sideload.setup_query(query) *)
setup_query(self, query) ==
    IF self.class = "Content" THEN Content_setup_query(self, query)
    ELSE Sideload_setup_query(self, query)

(* JSON values: a string holding a url, a dict with the keys "url" and     *)
(* "some", the empty dict, a list.  Missing stands for a key its dict does *)
(* not hold.  A url is the sequence of its path segments.                  *)
Str(url) == [url |-> url, items |-> <<>>, tag |-> "str", some |-> None]
Dict(url, some) == [url |-> url, items |-> <<>>, tag |-> "dict", some |-> some]
EmptyDict == [url |-> <<>>, items |-> <<>>, tag |-> "dict", some |-> None]
List(items) == [url |-> <<>>, items |-> items, tag |-> "list", some |-> None]
Missing == [url |-> <<>>, items |-> <<>>, tag |-> "missing", some |-> None]

(* hash(value) raises TypeError for a dict and for a list *)
unhashable(value) == value.tag = "dict" \/ value.tag = "list"

(* A dict, as its items in insertion order *)
Item(key, value) == [key |-> key, value |-> value]
contains(mapping, key) == \E i \in 1..Len(mapping) : mapping[i].key = key
index(mapping, key) == CHOOSE i \in 1..Len(mapping) : mapping[i].key = key

(* A lookup that finds no key *)
always_default(mapping, key, default) == default

(* mapping.get(key, default) *)
get(mapping, key, default) ==
    IF contains(mapping, key) THEN mapping[index(mapping, key)].value ELSE default

(* A dict that keeps the value a key got first *)
setdefault(mapping, key, value) ==
    IF contains(mapping, key) THEN mapping ELSE Append(mapping, Item(key, value))

(* mapping[key] = value *)
setitem(mapping, key, value) ==
    IF contains(mapping, key)
    THEN [mapping EXCEPT ![index(mapping, key)].value = value]
    ELSE Append(mapping, Item(key, value))

(* Sideload.get_mapping: {obj["url"]: obj for obj in objects} *)
RECURSIVE Sideload_get_mapping(_, _)
Sideload_get_mapping(objects, mapping) ==
    IF objects = <<>> THEN mapping
    ELSE Sideload_get_mapping(Tail(objects),
                              setitem(mapping, Head(objects).url, Head(objects)))

(* A key that is the whole url *)
whole_url(url) == url

(* obj["url"].rsplit("/", 1)[0] *)
rsplit(url) == IF Len(url) > 1 THEN SubSeq(url, 1, Len(url) - 1) ELSE url

(* mapping.setdefault(key, []).append(obj) *)
append_to(mapping, key, obj) ==
    IF contains(mapping, key)
    THEN [mapping EXCEPT ![index(mapping, key)].value =
              List(Append(mapping[index(mapping, key)].value.items, obj))]
    ELSE Append(mapping, Item(key, List(<<obj>>)))

(* Content.get_mapping *)
RECURSIVE Content_get_mapping(_, _)
Content_get_mapping(objects, mapping) ==
    IF objects = <<>> THEN mapping
    ELSE Content_get_mapping(Tail(objects),
                             append_to(mapping, rsplit(Head(objects).url), Head(objects)))

(* sideload.get_mapping(objects) *)
get_mapping(self, objects) ==
    IF self.class = "Content" THEN Content_get_mapping(objects, <<>>)
    ELSE Sideload_get_mapping(objects, <<>>)

(* A record of the results: its fields "content", "tests" and "test" *)
Record(content, tests, test) == [content |-> content, tests |-> tests, test |-> test]

(* What a sideloading step gives: the data it wrote to and what it raised *)
Injected(obj, exc) == [exc |-> exc, obj |-> obj]
Resolved(response, exc) == [exc |-> exc, response |-> response]

(* A lookup of every reference that gives {} for the ones not found *)
lookup_each(refs, sideloaded_dicts) ==
    [i \in 1..Len(refs) |-> get(sideloaded_dicts, refs[i].url, EmptyDict)]

(* [sideloaded_dicts[url] for url in refs if url in sideloaded_dicts] *)
RECURSIVE lookups(_, _)
lookups(refs, sideloaded_dicts) ==
    IF refs = <<>> THEN <<>>
    ELSE IF contains(sideloaded_dicts, Head(refs).url)
         THEN <<get(sideloaded_dicts, Head(refs).url, EmptyDict)>>
              \o lookups(Tail(refs), sideloaded_dicts)
         ELSE lookups(Tail(refs), sideloaded_dicts)

(* An inject_sideloaded that resolves the plural field too when the record *)
(* has both fields                                                         *)
inject_both(obj, sideload, sideloaded_dicts) ==
    LET url == obj[sideload.singular]
        refs == obj[sideload.plural]
        listed == IF refs.tag = "list" /\ sideload.plural # sideload.singular
                  THEN [obj EXCEPT ![sideload.plural] =
                            List(lookups(refs.items, sideloaded_dicts))]
                  ELSE obj
    IN  IF url.tag = "missing"
        THEN IF refs.tag = "missing" THEN Injected(obj, "KeyError")
             ELSE Injected(listed, None)
        ELSE Injected([listed EXCEPT ![sideload.singular] =
                           get(sideloaded_dicts, url.url, EmptyDict)],
                      None)

(* _resolve_sideloads.inject_sideloaded(obj).  obj[key] raises KeyError    *)
(* for a missing key; looking an unhashable value up in a dict raises      *)
(* TypeError before anything is assigned.                                  *)
inject_sideloaded(obj, sideload, sideloaded_dicts) ==
    LET url == obj[sideload.singular]
        refs == obj[sideload.plural]
    IN  IF url.tag = "missing"
        THEN IF refs.tag = "missing" THEN Injected(obj, "KeyError")
             ELSE IF \E i \in 1..Len(refs.items) : unhashable(refs.items[i])
                  THEN Injected(obj, "TypeError")
                  ELSE Injected([obj EXCEPT ![sideload.plural] =
                                     List(lookups(refs.items, sideloaded_dicts))],
                                None)
        ELSE IF unhashable(url) THEN Injected(obj, "TypeError")
             ELSE Injected([obj EXCEPT ![sideload.singular] =
                                get(sideloaded_dicts, url.url, EmptyDict)],
                           None)

(* A loop over the results that skips the records it cannot resolve *)
RECURSIVE inject_resolvable(_, _, _, _)
inject_resolvable(response, i, sideload, sideloaded_dicts) ==
    IF i > Len(response.results) THEN Resolved(response, None)
    ELSE LET r == inject_sideloaded(response.results[i], sideload, sideloaded_dicts)
         IN  inject_resolvable([response EXCEPT !.results[i] = r.obj], i + 1,
                               sideload, sideloaded_dicts)

(* for obj in response["results"]: inject_sideloaded(obj), from the i-th on *)
RECURSIVE inject_all(_, _, _, _)
inject_all(response, i, sideload, sideloaded_dicts) ==
    IF i > Len(response.results) THEN Resolved(response, None)
    ELSE LET r == inject_sideloaded(response.results[i], sideload, sideloaded_dicts)
         IN  IF r.exc # None THEN Resolved(response, r.exc)
             ELSE inject_all([response EXCEPT !.results[i] = r.obj], i + 1,
                             sideload, sideloaded_dicts)

(* _resolve_sideloads(response, sideloads), as the response it leaves and  *)
(* the exception it raises                                                 *)
RECURSIVE _resolve_sideloads(_, _)
_resolve_sideloads(response, sideloads) ==
    IF sideloads = <<>> THEN Resolved(response, None)
    ELSE LET sideload == Head(sideloads)
             sideloaded_dicts == get_mapping(sideload, response[sideload.plural])
             r == inject_all(response, 1, sideload, sideloaded_dicts)
         IN  IF r.exc # None THEN r
             ELSE _resolve_sideloads(r.response, Tail(sideloads))

(* The descriptors and the data the functions are applied to *)
DOCUMENTS == Sideload("documents", "document")
TESTS == Sideload("tests", "test")
CONTENT == Content("content", "content", <<>>)
QueryDescriptors ==
    {DOCUMENTS, CONTENT, Content("content", "content", <<"order_id">>),
     Content("content", "content", <<"document_id", "order_id">>)}
MappingDescriptors == {TESTS, CONTENT}

SideloadEntries == {"", "content", " documents", "modifiers"}
SchemaEntries == {"", " order_id", "document_id"}
Params(S) == {Absent} \cup {Param(items) : items \in Lists(S, 1, MaxItems)}

TestUrls == {<<"tests", "1">>, <<"tests", "2">>}
Urls == TestUrls \cup {<<"documents", "1">>}
Objects == {Dict(url, some) : url \in Urls, some \in {"test", "other"}}
RelatedObjects == {Dict(url, "test") : url \in TestUrls}

(* The records resolved with a descriptor: one reference under its         *)
(* singular field, a list of references under its plural field, neither,   *)
(* or both beside a field the descriptor does not name                     *)
Records(self) ==
    IF self.class = "Content"
    THEN {Record(ref, Missing, Missing) :
              ref \in {Missing, Str(<<"tests">>), Str(<<"documents">>)}}
    ELSE {Record(Missing, Missing, Missing)}
         \cup {Record(Missing, Missing, Str(url)) : url \in TestUrls}
         \cup {Record(Missing, List(refs), Missing) :
                   refs \in Lists({Str(url) : url \in TestUrls}, 0, MaxRefs)}
         \cup {Record(Str(<<"documents">>), List(<<Str(<<"tests", "1">>)>>),
                      Str(<<"tests", "2">>))}

(* Two records for the longer results: one with neither field of either   *)
(* descriptor, one with a reference under each singular field             *)
FewRecords ==
    {Record(Missing, Missing, Missing),
     Record(Str(<<"tests">>), Missing, Str(<<"tests", "1">>))}

QueryInit ==
    /\ scenario = "query"
    /\ theQuery \in {Query(sideload, schema_id) :
                        sideload \in Params(SideloadEntries),
                        schema_id \in Params(SchemaEntries)}
    /\ theObjects = <<>>
    /\ theResponse = NoResponse
    /\ theSideload = NoSideload

MappingInit ==
    /\ scenario = "mapping"
    /\ theQuery = EmptyQuery
    /\ theObjects \in Lists(Objects, 0, MaxObjects)
    /\ theResponse = NoResponse
    /\ theSideload = NoSideload

ResolveInit ==
    /\ scenario = "resolve"
    /\ theQuery = EmptyQuery
    /\ theObjects = <<>>
    /\ theSideload \in MappingDescriptors
    /\ \E results \in Lists(Records(theSideload), 0, MaxResults)
                          \cup Lists(FewRecords, MaxResults + 1, MaxResults + 1),
          related \in Lists(RelatedObjects, 0, MaxRelated) :
           theResponse = IF theSideload.class = "Content"
                         THEN Response(results, related, <<>>)
                         ELSE Response(results, <<>>, related)

SideloadInit ==
    /\ auth_using_token = FALSE
    /\ attempts_no = 1
    /\ ClientIdle
    /\ theMapping = <<>>
    /\ raised = <<>>
    /\ (QueryInit \/ MappingInit \/ ResolveInit)
    /\ before = Before(theQuery, theResponse)
    /\ NoHelper
    /\ NoThreads
    /\ NoDomain
    /\ NoPaging

(* sideload.setup_query(query) is called on the query *)
ApplySetupQuery(sideload) ==
    /\ scenario = "query"
    /\ Len(raised) < MaxCalls
    /\ theQuery' = setup_query(sideload, theQuery)
    /\ theSideload' = sideload
    /\ raised' = Append(raised, None)
    /\ before' = Before(theQuery, theResponse)
    /\ UNCHANGED <<scenario, theObjects, theMapping, theResponse>>
    /\ UNCHANGED <<cvars, hvars, rvars, dvars, pvars>>

(* sideload.get_mapping(objects) is called on the related objects *)
ApplyGetMapping(sideload) ==
    /\ scenario = "mapping"
    /\ Len(raised) < MaxCalls
    /\ theMapping' = get_mapping(sideload, theObjects)
    /\ theSideload' = sideload
    /\ raised' = Append(raised, None)
    /\ before' = Before(theQuery, theResponse)
    /\ UNCHANGED <<scenario, theQuery, theObjects, theResponse>>
    /\ UNCHANGED <<cvars, hvars, rvars, dvars, pvars>>

(* _resolve_sideloads(response, [sideload]) is called on the response *)
ApplyResolveSideloads ==
    /\ scenario = "resolve"
    /\ Len(raised) < MaxCalls
    /\ LET r == _resolve_sideloads(theResponse, <<theSideload>>)
       IN  /\ theResponse' = r.response
           /\ raised' = Append(raised, r.exc)
    /\ before' = Before(theQuery, theResponse)
    /\ UNCHANGED <<scenario, theQuery, theObjects, theMapping, theSideload>>
    /\ UNCHANGED <<cvars, hvars, rvars, dvars, pvars>>

SideloadNext ==
    \/ \E sideload \in QueryDescriptors : ApplySetupQuery(sideload)
    \/ \E sideload \in MappingDescriptors : ApplyGetMapping(sideload)
    \/ ApplyResolveSideloads

SideloadSpec == SideloadInit /\ [][SideloadNext]_vars

----------------------------------------------------------------------------
(* Helper functions: _encode_booleans and Sideload.__post_init__ *)

MaxLen == 3          \* most characters of a descriptor's plural or singular name

(* Values of a query: True and False, strings, numbers, lists of these.    *)
(* text is what str() gives for the value.                                 *)
Scalar(type, text) == [text |-> text, type |-> type, elements |-> <<>>]
Iterable(elements) == [text |-> "", type |-> "list", elements |-> elements]
Scalars == {Scalar("bool", "True"), Scalar("bool", "False"), Scalar("str", "True"),
            Scalar("int", "1")}
QueryValues == Scalars \cup {Iterable(elements) : elements \in Lists(Scalars, 0, MaxItems)}

(* Optional[dict]: None, or a dict as its items in insertion order *)
NoneDict == [is_none |-> TRUE, entries |-> <<>>]
SomeDict(entries) == [is_none |-> FALSE, entries |-> entries]
QueryKeys == <<"active", "id">>
Queries ==
    {NoneDict, SomeDict(<<>>)}
    \cup {SomeDict(<<Item(QueryKeys[1], v)>>) : v \in QueryValues}
    \cup {SomeDict(<<Item(QueryKeys[1], v), Item(QueryKeys[2], w)>>) :
              v \in QueryValues, w \in QueryValues}

(* A str.lower() that keeps the capitals *)
keep_case(text) == text

(* str.lower() on what str() gives for a bool *)
lower(text) ==
    CASE text = "True" -> "true"
      [] text = "False" -> "false"
      [] OTHER -> text

(* _encode_booleans.bool_to_str *)
bool_to_str(b) == IF b.type = "bool" THEN Scalar("str", lower(b.text)) ELSE b

(* if isinstance(vs, str) or not hasattr(vs, "__iter__"): vs = [vs] *)
as_iterable(vs) == IF vs.type = "list" THEN vs.elements ELSE <<vs>>

(* for k, vs in query.items(): res[k] = (bool_to_str(v) for v in vs) *)
RECURSIVE encode_items(_, _)
encode_items(entries, encoded) ==
    IF entries = <<>> THEN encoded
    ELSE encode_items(Tail(entries),
                      setitem(encoded, Head(entries).key,
                              [i \in 1..Len(as_iterable(Head(entries).value)) |->
                                   bool_to_str(as_iterable(Head(entries).value)[i])]))

(* _encode_booleans(query) *)
_encode_booleans(query) ==
    IF query.is_none THEN query ELSE SomeDict(encode_items(query.entries, <<>>))

(* Names, as the sequences of their characters *)
Names == Lists({"a", "s"}, 0, MaxLen)
NOT_SET == <<"NOT_SET">>

(* str.rstrip("s"): the name without its trailing run of "s" *)
RECURSIVE rstrip(_)
rstrip(name) ==
    IF name # <<>> /\ name[Len(name)] = "s"
    THEN rstrip(SubSeq(name, 1, Len(name) - 1))
    ELSE name

(* Sideload.__post_init__ *)
__post_init__(self) ==
    IF self.singular = NOT_SET THEN [self EXCEPT !.singular = rstrip(self.plural)]
    ELSE self

BooleansInit ==
    /\ scenario = "booleans"
    /\ theArgument \in Queries
    /\ theResult = NoneDict

DescriptorInit ==
    /\ scenario = "descriptor"
    /\ theArgument \in {Sideload(plural, singular) :
                           plural \in Names, singular \in Names \cup {NOT_SET}}
    /\ theResult = NoSideload

HelperInit ==
    /\ auth_using_token = FALSE
    /\ attempts_no = 1
    /\ ClientIdle
    /\ theQuery = EmptyQuery
    /\ theObjects = <<>>
    /\ theMapping = <<>>
    /\ theResponse = NoResponse
    /\ theSideload = NoSideload
    /\ raised = <<>>
    /\ before = Before(theQuery, theResponse)
    /\ (BooleansInit \/ DescriptorInit)
    /\ NoThreads
    /\ NoDomain
    /\ NoPaging

(* What applying a helper function leaves alone *)
HelperFrame ==
    /\ raised' = Append(raised, None)
    /\ UNCHANGED <<scenario, theQuery, theObjects, theMapping, theResponse, theSideload,
                   before, theArgument>>
    /\ UNCHANGED <<cvars, rvars, dvars, pvars>>

(* params=_encode_booleans(query) *)
ApplyEncodeBooleans ==
    /\ scenario = "booleans"
    /\ raised = <<>>
    /\ theResult' = _encode_booleans(theArgument)
    /\ HelperFrame

(* The dataclass calls __post_init__ on the descriptor it has built *)
ApplyPostInit ==
    /\ scenario = "descriptor"
    /\ raised = <<>>
    /\ theResult' = __post_init__(theArgument)
    /\ HelperFrame

HelperNext == ApplyEncodeBooleans \/ ApplyPostInit

HelperSpec == HelperInit /\ [][HelperNext]_vars

----------------------------------------------------------------------------
(* Threads sharing one client: each makes its first request *)

MaxThreads == 2      \* threads that share the client

Threads == 1..MaxThreads

(* A thread: its position, the token it found at the check, the key its    *)
(* login returned and the Authorization header it built                    *)
Thread(at, saw, key, header) == [key |-> key, at |-> at, saw |-> saw, header |-> header]
NoThread == Thread("start", None, None, None)

RaceInit ==
    /\ auth_using_token \in BOOLEAN
    /\ attempts_no = 1
    /\ ClientIdle
    /\ NoSideloading
    /\ NoHelper
    /\ threads = [t \in Threads |-> NoThread]
    /\ logins = <<>>
    /\ NoDomain
    /\ NoPaging

(* What a step of a thread leaves alone: everything but the token *)
ThreadFrame ==
    /\ UNCHANGED <<auth_using_token, attempts_no, scope, exitLogouts, exitPath, pc, op,
                   attempt, lattempt, now, lstart, sent, lastSent, lastOutcome, trail,
                   lastLogin, res, response_dict, served, npages, ret, args,
                   callerQuery>>
    /\ UNCHANGED <<sidevars, hvars, dvars, pvars>>

(* if self._auth_using_token: if self.token is None: *)
check(t) ==
    /\ threads[t].at = "start"
    /\ threads' = [threads EXCEPT ![t] =
                       Thread(IF ~auth_using_token THEN "send"
                              ELSE IF token = None THEN "get_token" ELSE "header",
                              token, None,
                              IF auth_using_token THEN None ELSE "basic")]
    /\ UNCHANGED <<token, logins>>
    /\ ThreadFrame

(* A get_token that looks at the token again before it logs in *)
get_token_unless_set(t) ==
    /\ threads[t].at = "get_token"
    /\ IF token = None
       THEN \E key \in Keys \cup {None} :
                /\ logins' = Append(logins, t)
                /\ threads' = [threads EXCEPT ![t].at = IF key = None THEN "raised" ELSE "assign",
                                              ![t].key = key]
       ELSE /\ threads' = [threads EXCEPT ![t].at = "header"]
            /\ UNCHANGED logins
    /\ UNCHANGED token
    /\ ThreadFrame

(* self.get_token(): the login call is sent and answered with a key, or fails *)
get_token_of(t) ==
    /\ threads[t].at = "get_token"
    /\ \E key \in Keys \cup {None} :
           /\ logins' = Append(logins, t)
           /\ threads' = [threads EXCEPT ![t].at = IF key = None THEN "raised" ELSE "assign",
                                         ![t].key = key]
    /\ UNCHANGED token
    /\ ThreadFrame

(* self.token = <the key returned> *)
assign(t) ==
    /\ threads[t].at = "assign"
    /\ token' = threads[t].key
    /\ threads' = [threads EXCEPT ![t].at = "header"]
    /\ UNCHANGED logins
    /\ ThreadFrame

(* return {"headers": {"Authorization": "Token " + self.token}} *)
header_of(t) ==
    /\ threads[t].at = "header"
    /\ threads' = [threads EXCEPT ![t].at = "send", ![t].header = token]
    /\ UNCHANGED <<token, logins>>
    /\ ThreadFrame

(* requests.request(method, url, **auth) *)
send(t) ==
    /\ threads[t].at = "send"
    /\ threads' = [threads EXCEPT ![t].at = "done"]
    /\ UNCHANGED <<token, logins>>
    /\ ThreadFrame

RaceNext ==
    \E t \in Threads :
        \/ check(t)
        \/ get_token_of(t)
        \/ assign(t)
        \/ header_of(t)
        \/ send(t)

RaceSpec == RaceInit /\ [][RaceNext]_vars

----------------------------------------------------------------------------
(* RossumClient: the operations built on the request methods *)

(* bool(v) of an optional string or bytes argument *)
truthy(v) == v # None /\ v # ""

(* PurePath(path).name *)
name_of(path) ==
    CASE path = "dir/doc.pdf" -> "doc.pdf"
      [] path = "dir/name.pdf" -> "name.pdf"
      [] OTHER -> path

(* a or b *)
either(a, b) == IF truthy(a) THEN a ELSE b

(* An operation is called by the user of the idle client.  A behaviour     *)
(* follows one operation on a newly constructed client: the operations     *)
(* share nothing but the client, whose use by a sequence of requests is    *)
(* what Spec describes.                                                    *)
Callable ==
    /\ pc = "idle"
    /\ scope \in {"none", "body"}
    /\ ~progress.running
    /\ operation = NoOperation

(* The operation raises RossumException(message) before it makes a request *)
Refuse(message) ==
    /\ ret' = Raised(RossumException(message, 0, 0))
    /\ sent' = <<>>
    /\ payload' = NoPayload
    /\ progress' = NoProgress
    /\ UNCHANGED <<auth_using_token, attempts_no, token, scope, exitLogouts, exitPath, pc,
                   op, attempt, lattempt, now, lstart, lastSent, lastOutcome, trail,
                   lastLogin, res, response_dict, served, npages, args, callerQuery>>

(* The operation calls a request method of the client *)
Request(o, data, state) ==
    /\ Begin(o)
    /\ payload' = data
    /\ progress' = [state EXCEPT !.running = TRUE, !.requests = @ + 1]
    /\ UNCHANGED <<scope, exitLogouts, exitPath, args, callerQuery>>

(* The operation returns r to, or raises it in, its caller *)
Finish(r, state) ==
    /\ ret' = r
    /\ progress' = [state EXCEPT !.running = FALSE]
    /\ UNCHANGED payload
    /\ UNCHANGED <<auth_using_token, attempts_no, token, scope, exitLogouts, exitPath, pc,
                   op, attempt, lattempt, now, lstart, sent, lastSent, lastOutcome, trail,
                   lastLogin, res, response_dict, served, npages, args, callerQuery>>

(* The request the operation was waiting for has returned or raised *)
Resumed(names) ==
    /\ pc = "idle"
    /\ progress.running
    /\ operation.name \in names

(* post(path, data=..., files=...), get(path), delete_url(url) *)
PostOp(path) == [name |-> "post", method |-> "post", url |-> Url(path, 0),
                 expected |-> DefaultStatus("post")]
GetOp(path) == [name |-> "get", method |-> "get", url |-> Url(path, 0),
                expected |-> DefaultStatus("get")]
DeleteOp(path) == [name |-> "delete_url", method |-> "delete", url |-> Url(path, 0),
                   expected |-> DefaultStatus("delete")]
ListOp(path) == [name |-> "get_paginated", method |-> "get", url |-> Url(path, 0),
                 expected |-> DefaultStatus("get")]

(* response.json() raises ValueError for a body that is not JSON *)
is_json(text) == text # Html /\ text # ""

(* f"Invalid JSON [{response.url}]: {response.text}" *)
InvalidJson(url, text) == <<"Invalid JSON [", url, "]: ", text>>

(* get_json(response) of what a request method returned; when the method   *)
(* raised, its exception passes through.                                   *)
get_json(r) ==
    IF r.kind = "ok" /\ ~is_json(r.text)
    THEN Raised(RossumException(InvalidJson(op.url, r.text), r.status, r.at))
    ELSE r

(* upload_document *)
NoFiles == <<"No file(s) to be sent.">>
NeedFilename ==
    <<"Need to pass filename_overwrite parameter to state the file name for the uploaded document.">>
UploadPath(id_) == CASE id_ = "5" -> "queues/5/upload"
Opened(file) == <<"open", file>>
Multipart(filename, data, values, metadata) ==
    [kind |-> "files", data |-> data, filename |-> filename,
     has_values |-> values # None, has_metadata |-> truthy(metadata)]

(* A validation that lets bytes without a file name through *)
bytes_unnamed_allowed(file_bytes, filename_overwrite) == FALSE

(* if file_bytes and not filename_overwrite *)
bytes_unnamed(file_bytes, filename_overwrite) ==
    truthy(file_bytes) /\ ~truthy(filename_overwrite)

upload_document(id_, file, filename_overwrite, values, metadata, file_bytes) ==
    /\ Callable
    /\ operation' = [name |-> "upload_document", id_ |-> id_, file |-> file,
                     values |-> values, metadata |-> metadata, file_bytes |-> file_bytes,
                     filename_overwrite |-> filename_overwrite]
    /\ IF ~(truthy(file) \/ truthy(file_bytes))
       THEN Refuse(NoFiles)
       ELSE IF bytes_unnamed(file_bytes, filename_overwrite)
       THEN Refuse(NeedFilename)
       ELSE Request(PostOp(UploadPath(id_)),
                    IF truthy(file)
                    THEN Multipart(either(name_of(filename_overwrite), name_of(file)),
                                   Opened(file), values, metadata)
                    ELSE Multipart(filename_overwrite, <<file_bytes>>, values, metadata),
                    NoProgress)
    /\ UNCHANGED <<sidevars, hvars, rvars, pvars>>

(* create_inbox *)
NoEmail == <<"Inbox cannot be created without email prefix or email specified.">>
InboxData(email_prefix, bounce_email, has_email, email) ==
    [kind |-> "data", email_prefix |-> email_prefix, has_email |-> has_email,
     email |-> IF has_email THEN email ELSE None, bounce_email_to |-> bounce_email,
     bounce_unprocessable_attachments |-> truthy(bounce_email)]

(* A create_inbox that always puts the email into the data *)
email_always(email) == TRUE

(* if email: inbox_creation_data["email"] = email *)
email_given(email) == truthy(email)

create_inbox(email_prefix, bounce_email, email) ==
    /\ Callable
    /\ operation' = [name |-> "create_inbox", email_prefix |-> email_prefix,
                     bounce_email |-> bounce_email, email |-> email]
    /\ IF ~(truthy(email_prefix) \/ truthy(email))
       THEN Refuse(NoEmail)
       ELSE Request(PostOp("inboxes"),
                    InboxData(email_prefix, bounce_email, email_given(email), email),
                    NoProgress)
    /\ UNCHANGED <<sidevars, hvars, rvars, pvars>>

(* return get_json(self.post(...)) of upload_document and create_inbox *)
return_json ==
    /\ Resumed({"upload_document", "create_inbox"})
    /\ Finish(get_json(ret), progress)
    /\ UNCHANGED operation
    /\ UNCHANGED <<sidevars, hvars, rvars, pvars>>

(* get_queue and get_workspace *)
QUEUES == "queues"
IdMissing(what) ==
    CASE what = "get_queue" -> <<"Queue ID must be specified.">>
      [] what = "get_workspace" -> <<"Workspace ID must be specified.">>
ObjectPath(what, id_) ==
    CASE what = "get_queue" /\ id_ = "5" -> "queues/5"
      [] what = "get_workspace" /\ id_ = "5" -> "workspaces/5"
ReturnedObject(obj) == [NoReturn EXCEPT !.kind = "ok", !.list = <<obj>>]

(* An unpacking that takes the first object of a list that has some *)
some(list) == Len(list) >= 1

(* [queue] = self.get_queues(): the unpacking raises ValueError unless the *)
(* list holds one object                                                   *)
single(list) == Len(list) = 1

(* except ValueError: json.JSONDecodeError is a ValueError as well *)
is_ValueError(exc) == exc.cls \in {"ValueError", "JSONDecodeError"}

(* get_queue / get_workspace up to their first request: the listing when   *)
(* no ID is given, the object itself otherwise                             *)
get_object(what, plural, id_) ==
    /\ operation' = [name |-> what, id_ |-> id_]
    /\ IF id_ = None
       THEN Request(ListOp(plural), NoPayload, NoProgress)
       ELSE Request(GetOp(ObjectPath(what, id_)), NoPayload, NoProgress)
    /\ UNCHANGED <<sidevars, hvars, rvars, pvars>>

get_queue(id_) ==
    /\ Callable
    /\ get_object("get_queue", QUEUES, id_)

get_workspace(id_) ==
    /\ Callable
    /\ get_object("get_workspace", WORKSPACES.plural, id_)

(* The rest of get_queue / get_workspace: the unpacking of the listing     *)
(* inside the try block, or get_json of the response; _sideload without    *)
(* sideloads makes no request.                                             *)
return_object ==
    /\ Resumed({"get_queue", "get_workspace"})
    /\ IF operation.id_ # None
       THEN Finish(get_json(ret), progress)
       ELSE IF ret.kind = "raised"
       THEN Finish(IF is_ValueError(ret.exc)
                   THEN Raised(RossumException(IdMissing(operation.name), 0, 0))
                   ELSE ret, progress)
       ELSE IF single(ret.list)
       THEN Finish(ReturnedObject(ret.list[1]), progress)
       ELSE Finish(Raised(RossumException(IdMissing(operation.name), 0, 0)), progress)
    /\ UNCHANGED operation
    /\ UNCHANGED <<sidevars, hvars, rvars, pvars>>

(* delete *)
MaxTargets == 2      \* most targets of one bulk delete

(* The targets of a bulk delete: to_delete maps the i-th id to this URL *)
TargetPath(i) ==
    CASE i = 1 -> "hooks/1"
      [] i = 2 -> "hooks/2"
      [] i = 3 -> "hooks/3"
      [] OTHER -> "hooks/4"
Targets == {[i \in 1..n |-> i] : n \in 0..MaxTargets}

(* click.echo of delete: what happened to which target *)
Echo(text, id_, exc) == [text |-> text, exc |-> exc, id_ |-> id_]

(* An except clause that takes every exception for an API error *)
any_exception(exc) == TRUE

(* except RossumException *)
is_RossumException(exc) == exc.cls = "RossumException"

(* str(exc) *)
str(exc) == exc.msg

(* delete up to its first delete_url; nothing is done for no targets *)
delete(to_delete, verbose) ==
    /\ Callable
    /\ operation' = [name |-> "delete", to_delete |-> to_delete, verbose |-> verbose]
    /\ IF to_delete = <<>>
       THEN /\ ret' = ReturnedNone
            /\ sent' = <<>>
            /\ payload' = NoPayload
            /\ progress' = NoProgress
            /\ UNCHANGED <<auth_using_token, attempts_no, token, scope, exitLogouts,
                           exitPath, pc, op, attempt, lattempt, now, lstart, lastSent,
                           lastOutcome, trail, lastLogin, res, response_dict, served,
                           npages, args, callerQuery>>
       ELSE Request(DeleteOp(TargetPath(Head(to_delete))), NoPayload,
                    [NoProgress EXCEPT !.todo = Tail(to_delete)])
    /\ UNCHANGED <<sidevars, hvars, rvars, pvars>>

(* The loop of delete goes on with the next target, or ends *)
NextTarget(echoed) ==
    IF progress.todo = <<>>
    THEN Finish(ReturnedNone, [progress EXCEPT !.echoed = echoed])
    ELSE Request(DeleteOp(TargetPath(Head(progress.todo))), NoPayload,
                 [progress EXCEPT !.todo = Tail(progress.todo), !.echoed = echoed])

(* The rest of one round of the loop: the except and else clauses around   *)
(* self.delete_url(url)                                                    *)
delete_next ==
    /\ Resumed({"delete"})
    /\ LET id_ == operation.to_delete[progress.requests] IN
       IF ret.kind = "raised" /\ is_RossumException(ret.exc)
       THEN NextTarget(Append(progress.echoed, Echo("caused", id_, str(ret.exc))))
       ELSE IF ret.kind = "raised"
       THEN Finish(Raised(RossumException(str(ret.exc), 0, 0)),
                   [progress EXCEPT !.echoed =
                        Append(@, Echo("caused an unexpected exception", id_,
                                       str(ret.exc)))])
       ELSE NextTarget(IF operation.verbose > 1
                       THEN Append(progress.echoed, Echo("Deleted", id_, <<>>))
                       ELSE progress.echoed)
    /\ UNCHANGED operation
    /\ UNCHANGED <<sidevars, hvars, rvars, pvars>>

(* poll_annotation.  Times are in tenths of a second. *)
MaxPolls == 4        \* most fetches of one poll_annotation

Importing == "{status: importing}"
ToReview == "{status: to_review}"
AnnotationPath(id_) == CASE id_ = "9" -> "annotations/9"

(* The snapshots the service may answer the fetch of an annotation with *)
AnnotationResponses ==
    IF op.url.path = "annotations/9"
    THEN [kind : {"resp"}, status : {200}, text : {Importing, ToReview}, content : {NoPage}]
    ELSE {}

(* get_annotation: "Annotation ID wasn't specified." *)
NoAnnotation == <<"Annotation ID wasn't specified.">>

(* annotation_object["status"] raises KeyError for a dict without the key *)
has_status(text) == text \in {Importing, ToReview}
KeyError == [NoExc EXCEPT !.cls = "KeyError", !.msg = <<"status">>]

(* polling2.TimeoutException *)
TimeoutException == [NoExc EXCEPT !.cls = "TimeoutException"]

(* The caller's check_success, applied to a snapshot *)
check_success(predicate, text) ==
    CASE predicate = "to_review" -> text = ToReview
      [] predicate = "never" -> FALSE

(* int(round(x)) of x tenths: to the nearest whole second, a half to the   *)
(* even one                                                                *)
int_round(x) ==
    LET whole == x \div 10
        tenths == x % 10
    IN IF tenths < 5 THEN whole
       ELSE IF tenths > 5 THEN whole + 1
       ELSE IF whole % 2 = 0 THEN whole ELSE whole + 1

(* timeout=int(round(max_retries * sleep_secs)), in seconds *)
timeout_of(max_retries, sleep_secs) == int_round(max_retries * sleep_secs)

(* polling2.poll: max_time = time.time() + timeout if timeout else None;   *)
(* after a failed check: if max_time is not None and time.time() >=        *)
(* max_time: raise TimeoutException                                         *)
timed_out(timeout, elapsed) == timeout # 0 /\ elapsed >= timeout * 10

(* poll_annotation up to the first request of its first fetch *)
poll_annotation(annotation, predicate, max_retries, sleep_secs) ==
    /\ Callable
    /\ operation' = [name |-> "poll_annotation", check_success |-> predicate,
                     max_retries |-> max_retries, sleep_secs |-> sleep_secs,
                     annotation |-> annotation]
    /\ IF annotation = None
       THEN Refuse(NoAnnotation)
       ELSE Request(GetOp(AnnotationPath(annotation)), NoPayload, NoProgress)
    /\ UNCHANGED <<sidevars, hvars, rvars, pvars>>

(* The rest of one round of polling2.poll: the fetch has ended; its        *)
(* exception leaves the poll, its snapshot is checked, and then the poll   *)
(* returns it, times out, or sleeps for the step and fetches again.        *)
poll_next ==
    /\ Resumed({"poll_annotation"})
    /\ LET r == get_json(ret)
           at == progress.elapsed + now * 10
           state == [progress EXCEPT !.fetched = Append(@, r.text), !.elapsed = at]
       IN
       IF r.kind = "raised"
       THEN Finish(r, progress)
       ELSE IF ~has_status(r.text)
       THEN Finish(Raised(KeyError), progress)
       ELSE IF check_success(operation.check_success, r.text)
       THEN Finish(r, state)
       ELSE IF timed_out(timeout_of(operation.max_retries, operation.sleep_secs), at)
       THEN Finish(Raised(TimeoutException), state)
       ELSE /\ Len(state.fetched) < MaxPolls
            /\ Request(GetOp(AnnotationPath(operation.annotation)), NoPayload,
                       [state EXCEPT !.elapsed = @ + operation.sleep_secs])
    /\ UNCHANGED operation
    /\ UNCHANGED <<sidevars, hvars, rvars, pvars>>

(* The arguments the operations are called with *)
Polls ==
    [check_success : {"to_review", "never"}, max_retries : {0, 1, 2},
     sleep_secs : {4, 50}, annotation : {"9"}]
    \cup [check_success : {"never"}, max_retries : {2}, sleep_secs : {50},
          annotation : {None}]
Optional(v) == {None, "", v}
Uploads ==
    [id_ : {"5"}, file : Optional("dir/doc.pdf"), values : {None}, metadata : {None},
     file_bytes : {None, "%PDF"}, filename_overwrite : {"", "dir/name.pdf"}]
    \cup [id_ : {"5"}, file : {"dir/doc.pdf"}, values : {"{}"}, metadata : {"{}"},
          file_bytes : {None}, filename_overwrite : {""}]
Inboxes ==
    [email_prefix : Optional("prefix"), bounce_email : {None}, email : Optional("in@x")]
    \cup [email_prefix : {"prefix"}, bounce_email : {"bounce@x"}, email : {None}]

DomainInit ==
    /\ auth_using_token \in BOOLEAN
    /\ attempts_no = 1
    /\ ClientIdle
    /\ NoSideloading
    /\ NoHelper
    /\ NoThreads
    /\ NoDomain
    /\ NoPaging

DomainNext ==
    \/ \E a \in Uploads : upload_document(a.id_, a.file, a.filename_overwrite, a.values,
                                          a.metadata, a.file_bytes)
    \/ \E a \in Inboxes : create_inbox(a.email_prefix, a.bounce_email, a.email)
    \/ return_json
    \/ \E id_ \in {None, "5"} : get_queue(id_)
    \/ \E id_ \in {None, "5"} : get_workspace(id_)
    \/ return_object
    \/ \E to_delete \in Targets, verbose \in {0, 2} : delete(to_delete, verbose)
    \/ delete_next
    \/ \E a \in Polls : poll_annotation(a.annotation, a.check_success, a.max_retries,
                                         a.sleep_secs)
    \/ poll_next
    \/ _authentication
    \/ \E o \in NetworkFailures \cup LoginResponses : get_token(o)
    \/ \E o \in NetworkFailures \cup PlainResponses \cup PageResponses
                  \cup AnnotationResponses : _request_url(o)

DomainSpec == DomainInit /\ [][DomainNext]_vars

----------------------------------------------------------------------------
(* get_paginated with sideloads and _sideload, one page request at a time. *)
(* A page request is a whole self.get or self.get_url: it gives a page or  *)
(* raises.                                                                 *)

MaxFetches == 3      \* most page requests of one get_paginated or _sideload call

(* One page request: self.get(path, query) or self.get_url(next_page) *)
Get(url, query) == [url |-> url, query |-> query]

(* The first URL of a listing and the URL of its n-th page *)
PageUrl(path, n) == Url(path, n)

(* APIObject(plural, singular), as to_sideloads and _sideload read it *)
APIObject(plural, singular) ==
    [plural |-> plural, singular |-> singular, class |-> "APIObject", schema_ids |-> <<>>]

(* to_sideloads, lines 62-75: an APIObject becomes a Sideload, a Sideload   *)
(* (a Content is one) is kept                                              *)
cast(sideload) ==
    IF sideload.class = "APIObject" THEN Sideload(sideload.plural, sideload.singular)
    ELSE sideload
to_sideloads(sideloads) == [i \in 1..Len(sideloads) |-> cast(sideloads[i])]

(* A get_paginated that writes the sideload parameters to the dict it got *)
same_dict(dict) == dict

(* query.copy(): another dict with the same items *)
copy(dict) == "copy"

(* The dict the name query is bound to when the sideloads set it up: the   *)
(* {} of line 236, the caller's dict, or the copy of line 243              *)
bound_to(q, sideloads) ==
    IF ~q.given THEN "new"
    ELSE IF sideloads # <<>> THEN copy("caller")
    ELSE "caller"

(* for sideload in sideloads: sideload.setup_query(query) *)
RECURSIVE setup_queries(_, _)
setup_queries(sideloads, query) ==
    IF sideloads = <<>> THEN query
    ELSE setup_queries(Tail(sideloads), setup_query(Head(sideloads), query))

(* get_paginated, lines 235-247: the checks, the query set up, and the     *)
(* first page requested                                                    *)
Entered(path, q, given_sideloads) ==
    LET sideloads == to_sideloads(given_sideloads)
        entered == [NoGetPaginated EXCEPT !.path = path, !.given = q, !.caller = q.query,
                                          !.query = q.query, !.sideloads = sideloads]
    IN  IF ambiguous(q.query, sideloads)
        THEN [entered EXCEPT !.pc = "done",
                             !.ret = Raised(RossumException(AmbiguousSideloading, 0, 0))]
        ELSE LET dict == bound_to(q, sideloads)
                 set_up == setup_queries(sideloads, q.query)
             IN  [entered EXCEPT !.pc = "get",
                                 !.query = set_up,
                                 !.caller = IF dict = "caller" THEN set_up ELSE q.query,
                                 !.requests = <<Get(PageUrl(path, 1), QueryArg(set_up))>>]

(* An accumulation that extends the results only *)
extend_results(acc, page) == [acc EXCEPT !.results = extend(@, page.results)]

(* for k, v in response_dict.items(): if k != "pagination":                 *)
(*     res.setdefault(k, []).extend(v)                                     *)
extend_all(acc, page) ==
    [acc EXCEPT !.results = extend(@, page.results),
                !.content = extend(@, page.content),
                !.tests = extend(@, page.tests)]

(* A page request that sends the query of the first request again *)
get_url_with_query(next_page, query) == Get(next_page, QueryArg(query))

(* self.get_url(next_page) *)
get_url(next_page, query) == Get(next_page, NoQueryArg)

(* get_paginated, lines 262-265: the sideloads resolved over res, and the  *)
(* list and the total returned                                             *)
Returning(p) ==
    LET r == IF p.sideloads # <<>> THEN _resolve_sideloads(p.res, p.sideloads)
             ELSE Resolved(p.res, None)
    IN  [p EXCEPT !.pc = "done",
                  !.res = r.response,
                  !.ret = IF r.exc # None THEN Raised([NoExc EXCEPT !.cls = r.exc])
                          ELSE ReturnedList(r.response.results,
                                            p.response_dict.pagination.total)]

(* get_paginated, lines 248-260: the page read, res extended by it, and    *)
(* the next page requested while the page names one                        *)
Received(p, page) ==
    LET next_page == page.pagination.next
        read == [p EXCEPT !.pages = Append(@, page),
                          !.res = IF p.pages = <<>> THEN page ELSE extend_all(p.res, page),
                          !.response_dict = page]
    IN  IF next_page # NullUrl
        THEN [read EXCEPT !.requests = Append(@, get_url(next_page, p.query))]
        ELSE Returning(read)

(* self.get or self.get_url raised: get_paginated lets the exception pass *)
Failed(p) ==
    [p EXCEPT !.pc = "done",
              !.ret = Raised(RossumException(InvalidResponse(p.path, Detail), 500,
                                             Len(p.requests)))]

(* The page requests made so far by the running call *)
Fetches == sideloading.requests + Len(paging.requests)

(* The listings and what they hold: annotations refer to their content and *)
(* to a test; tests and content objects are the related objects            *)
ANNOTATIONS == "annotations"
Annotation == Record(Str(<<"tests">>), Missing, Str(<<"tests", "1">>))
Related1 == Dict(<<"tests", "1">>, "test")
ResultsOf(path) == IF path = ANNOTATIONS THEN {<<>>, <<Annotation>>} ELSE {<<>>, <<Related1>>}

(* The service sideloads what the query of the first request asked for *)
Requested(p) == Range(_parse_query_array(get_array(p.query.sideload)))
Sideloaded(p, plural) == IF plural \in Requested(p) THEN {<<>>, <<Related1>>} ELSE {<<>>}

(* pagination.next: null, the page after the one requested, or the first   *)
(* page again                                                              *)
Links(p) ==
    {NullUrl} \cup (IF Fetches < MaxFetches
                    THEN {PageUrl(p.path, p.requests[Len(p.requests)].url.page + 1),
                          PageUrl(p.path, 1)}
                    ELSE {})

(* The pages the service may answer the pending request with *)
Pages(p) ==
    IF p.pc = "get"
    THEN {PageDict(results, content, tests, next) :
              results \in ResultsOf(p.path), content \in Sideloaded(p, "content"),
              tests \in Sideloaded(p, "tests"), next \in Links(p)}
    ELSE {}

PagingFrame == UNCHANGED <<cvars, sidevars, hvars, rvars, dvars>>

(* get_paginated(path, query, sideloads=sideloads) is called *)
call_get_paginated(path, q, sideloads) ==
    /\ paging.pc = "idle"
    /\ sideloading.pc = "idle"
    /\ paging' = Entered(path, q, sideloads)
    /\ UNCHANGED sideloading
    /\ PagingFrame

(* The pending page request is answered with a page *)
page_received(page) ==
    /\ paging.pc = "get"
    /\ paging' = Received(paging, page)
    /\ UNCHANGED sideloading
    /\ PagingFrame

(* The pending page request raises *)
page_failed ==
    /\ paging.pc = "get"
    /\ paging' = Failed(paging)
    /\ UNCHANGED sideloading
    /\ PagingFrame

(* A _sideload that fetches the related objects of every record apart *)
fetch_per_record(objects, sideloads) ==
    [k \in 1..(Len(objects) * Len(sideloads)) |-> sideloads[((k - 1) % Len(sideloads)) + 1]]

(* _sideload, line 271: for sideload in sideloads or [] *)
fetch_per_sideload(objects, sideloads) == sideloads

(* _sideload, lines 274-276: the sideloads resolved over the response, and *)
(* response["results"] returned                                            *)
Sideloaded_(s) ==
    LET r == IF s.sideloads # <<>>
             THEN _resolve_sideloads(s.response, to_sideloads(s.sideloads))
             ELSE Resolved(s.response, None)
    IN  [s EXCEPT !.pc = "done",
                  !.response = r.response,
                  !.ret = IF r.exc # None THEN Raised([NoExc EXCEPT !.cls = r.exc])
                          ELSE ReturnedList(r.response.results, 0)]

(* The listings _sideload has still to fetch *)
ToFetch(s) == fetch_per_sideload(s.objects, s.sideloads)

(* _sideload(objects, sideloads) is called: line 270, and the first        *)
(* self.get_paginated(sideload) when there is a sideload                   *)
_sideload(objects, sideloads) ==
    /\ paging.pc = "idle"
    /\ sideloading.pc = "idle"
    /\ LET s == [NoSideloadCall EXCEPT !.pc = "running", !.objects = objects,
                                       !.sideloads = sideloads,
                                       !.response = Response(objects, <<>>, <<>>)]
       IN  IF ToFetch(s) = <<>>
           THEN /\ sideloading' = Sideloaded_(s)
                /\ UNCHANGED paging
           ELSE /\ sideloading' = s
                /\ paging' = Entered(ToFetch(s)[1].plural, NoQueryArg, <<>>)
    /\ PagingFrame

(* self.get_paginated(sideload) has returned or raised: line 273, and the  *)
(* next sideload fetched or the response resolved                          *)
_sideload_next ==
    /\ sideloading.pc = "running"
    /\ paging.pc = "done"
    /\ LET n == Len(sideloading.fetched) + 1
           sideload == ToFetch(sideloading)[n]
           s == [sideloading EXCEPT
                     !.response[sideload.plural] = paging.ret.list,
                     !.requests = @ + Len(paging.requests),
                     !.fetched = Append(@, [plural |-> sideload.plural,
                                            pages |-> Len(paging.pages)])]
       IN  IF paging.ret.kind = "raised"
           THEN /\ sideloading' = [s EXCEPT !.pc = "done", !.ret = paging.ret,
                                            !.response = sideloading.response]
                /\ paging' = NoGetPaginated
           ELSE IF n < Len(ToFetch(s))
           THEN /\ s.requests < MaxFetches
                /\ sideloading' = s
                /\ paging' = Entered(ToFetch(s)[n + 1].plural, NoQueryArg, <<>>)
           ELSE /\ sideloading' = Sideloaded_(s)
                /\ paging' = NoGetPaginated
    /\ PagingFrame

(* The calls made in the model *)
TESTS_OBJECT == APIObject("tests", "test")
CONTENT_OBJECT == APIObject("content", "content")
WITH_SCHEMA == Content("content", "content", <<"order_id">>)
GetPaginatedCalls ==
    {[query |-> NoQueryArg, sideloads |-> <<>>],
     [query |-> QueryArg(EmptyQuery), sideloads |-> <<>>],
     [query |-> QueryArg(EmptyQuery), sideloads |-> <<TESTS_OBJECT>>],
     [query |-> QueryArg(EmptyQuery), sideloads |-> <<CONTENT>>],
     [query |-> QueryArg(Query(Absent, Param(<<"document_id">>))),
      sideloads |-> <<WITH_SCHEMA>>],
     [query |-> QueryArg(Query(Param(<<"content">>), Absent)),
      sideloads |-> <<TESTS_OBJECT>>]}
SideloadCalls ==
    [objects : Lists({Annotation}, 0, MaxResults),
     sideloads : {<<>>, <<TESTS_OBJECT>>, <<TESTS_OBJECT, CONTENT_OBJECT>>}]

PagingInit ==
    /\ auth_using_token = FALSE
    /\ attempts_no = 1
    /\ ClientIdle
    /\ NoSideloading
    /\ NoHelper
    /\ NoThreads
    /\ NoDomain
    /\ NoPaging

PagingNext ==
    \/ \E a \in GetPaginatedCalls : call_get_paginated(ANNOTATIONS, a.query, a.sideloads)
    \/ \E page \in Pages(paging) : page_received(page)
    \/ page_failed
    \/ \E a \in SideloadCalls : _sideload(a.objects, a.sideloads)
    \/ _sideload_next

PagingSpec == PagingInit /\ [][PagingNext]_vars

----------------------------------------------------------------------------
(* Properties *)

(* The calls of the running _request_url that went to the endpoint *)
EndpointCalls == Cardinality({i \in 1..Len(sent) : sent[i].url # LOGIN_URL})

(* The attempts of the running _request_url that ended inside get_token *)
AttemptsEndedInLogin == Cardinality({i \in 1..Len(trail) : trail[i] = "login"})

(* The running _request_url made no login call *)
NoLoginCall == \A i \in 1..Len(sent) : sent[i].url # LOGIN_URL

(* A public operation that made an HTTP request has returned to its caller *)
RequestReturned == pc = "idle" /\ ret.kind = "ok" /\ Len(sent) > 0

(* get_paginated has returned its list and total *)
PaginatedReturned == pc = "idle" /\ op.name = "get_paginated" /\ ret.kind = "ok"

(* C1: for every chain of pages linked by pagination.next, the list        *)
(* get_paginated returns is exactly the concatenation, in page order, of   *)
(* the results of all pages the service served: nothing dropped,           *)
(* duplicated or reordered.                                                *)
C1_Concatenation == PaginatedReturned => ret.list = served

C1_Witness ==
    /\ PaginatedReturned
    /\ npages = 2
    /\ response_dict.results # <<>>
    /\ Len(response_dict.results) < Len(ret.list)
    /\ Len(ret.list) >= 3

(* C2: the total get_paginated returns is the pagination.total of the last *)
(* page fetched, the page whose next is null, whatever the first page      *)
(* reported and however long the returned list is.                         *)
C2_LastTotal ==
    PaginatedReturned =>
        /\ response_dict.pagination.next = NullUrl
        /\ ret.total = response_dict.pagination.total

C2_Witness ==
    /\ PaginatedReturned
    /\ npages = 2
    /\ res.pagination.total # ret.total
    /\ ret.total # Len(ret.list)

(* C3: in token mode a request made with no token cached logs in before it *)
(* is sent, and the key the login returned is what gets cached; once a     *)
(* token is cached no step of any later operation (request, paginated      *)
(* fetch, logout) calls login again, and the token never changes.          *)
C3_LoginOnce ==
    [][ /\ (auth_using_token /\ token = None /\ pc = "auth") => pc' = "login"
        /\ (token = None /\ token' # None) => (pc = "login" /\ token' = lastLogin')
        /\ token # None =>
               /\ token' = token
               /\ pc # "login" /\ pc' # "login"
               /\ Len(sent') > 0 => sent'[Len(sent')].url # LOGIN_URL ]_vars

C3_Witness ==
    /\ auth_using_token
    /\ token # None
    /\ pc = "idle"
    /\ op.name = "logout"
    /\ ret.kind = "ok"
    /\ Len(sent) > 0
    /\ NoLoginCall

(* C4: in token mode every call that is not the login is sent after a      *)
(* login has succeeded, and carries Authorization: Token <key> with the    *)
(* key that login returned.                                                *)
C4_TokenHeader ==
    auth_using_token =>
        \A c \in {lastSent} \cup {sent[i] : i \in 1..Len(sent)} :
            (c # NoCall /\ c.url # LOGIN_URL) =>
                /\ lastLogin # None
                /\ c.auth = [scheme |-> "Token", credentials |-> lastLogin]

C4_Witness ==
    /\ auth_using_token
    /\ Len(sent) = 2
    /\ sent[1].url = LOGIN_URL
    /\ sent[2].url = OBJ_URL
    /\ sent[2].auth.credentials = "k2"
    /\ lastSent = sent[2]

C6_Exhausted ==
    (/\ NoLoginCall
     /\ lastOutcome.kind = "exc"
     /\ lastOutcome.cls \in RetriedTypes
     /\ Len(trail) >= attempts_no) =>
        /\ pc = "idle"
        /\ Len(sent) = attempts_no
        /\ attempt = attempts_no
        /\ ret.kind = "raised"
        /\ ret.exc = NetworkError(lastOutcome.cls, Len(sent))

C6_Witness ==
    /\ auth_using_token
    /\ token # None
    /\ NoLoginCall
    /\ attempts_no = 2
    /\ Len(sent) = 2
    /\ pc = "idle"
    /\ ret.kind = "raised"
    /\ ret.exc.cls = "ProxyError"

(* The last HTTP call ended in something other than a transient            *)
(* connectivity error: another exception, a refused login, a login or page *)
(* body that cannot be read, or a status other than the expected one.      *)
NonTransientFailure ==
    \/ lastOutcome.kind = "exc" /\ lastOutcome.cls \notin RetriedTypes
    \/ /\ lastOutcome.kind = "resp"
       /\ lastSent.url = LOGIN_URL
       /\ lastOutcome.status >= 400 \/ lastOutcome.text = Html
    \/ /\ lastOutcome.kind = "resp"
       /\ lastSent.url # LOGIN_URL
       /\ lastOutcome.status # op.expected
    \/ /\ lastOutcome.kind = "resp"
       /\ lastSent.url # LOGIN_URL
       /\ op.name = "get_paginated"
       /\ lastOutcome.text # PageText

(* C7: an attempt that ends in anything other than a transient             *)
(* connectivity error is not retried: the failure is raised to the caller  *)
(* at once, it is the failure of the last call made, and no further        *)
(* attempt is started even when attempts remain.                           *)
C7_NoRetry ==
    NonTransientFailure =>
        /\ pc = "idle"
        /\ ret.kind = "raised"
        /\ ret.exc.cls \notin RetriedTypes
        /\ ret.exc.at = Len(sent)
        /\ Len(trail) = attempt

C7_Witness ==
    /\ NonTransientFailure
    /\ lastOutcome.status = 401
    /\ attempts_no = 2
    /\ attempt = 1
    /\ lattempt = 1
    /\ pc = "idle"

(* C8: a request returns its response only when the status is the expected *)
(* one (200 for get and patch, 201 for post, 204 for delete); any other    *)
(* status, another 2xx included, raises a RossumException whose message    *)
(* holds the URL and the body text of the response.                        *)
C8_ExpectedStatus ==
    /\ op.name = "request" =>
           op.expected = CASE op.method \in {"get", "patch"} -> 200
                           [] op.method = "post" -> 201
                           [] op.method = "delete" -> 204
    /\ (lastOutcome.kind = "resp" /\ lastSent.url # LOGIN_URL) =>
           /\ lastOutcome.status # op.expected =>
                  /\ pc = "idle"
                  /\ ret.kind = "raised"
                  /\ ret.exc.cls = "RossumException"
                  /\ ret.exc.msg = InvalidResponse(lastSent.url, lastOutcome.text)
           /\ RequestReturned =>
                  /\ lastOutcome.status = op.expected
                  /\ op.name # "get_paginated" =>
                         ret.status = op.expected /\ ret.text = lastOutcome.text

C8_Witness ==
    /\ op.name = "request"
    /\ op.method = "post"
    /\ lastSent.url = OBJ_URL
    /\ lastOutcome.kind = "resp"
    /\ lastOutcome.status = 200
    /\ ret.kind = "raised"
    /\ ret.exc.msg = InvalidResponse(OBJ_URL, Empty)

(* C9: a login answered 401 raises "Login failed with the provided         *)
(* credentials.", any other not-OK login status raises the different       *)
(* "Invalid response [url]: body"; either way the login is not retried and *)
(* no call other than the login has been sent.                             *)
C9_LoginRefused ==
    (/\ lastOutcome.kind = "resp"
     /\ lastSent.url = LOGIN_URL
     /\ lastOutcome.status >= 400) =>
        /\ pc = "idle"
        /\ ret.kind = "raised"
        /\ ret.exc.cls = "RossumException"
        /\ ret.exc.msg = IF lastOutcome.status = 401
                         THEN LoginFailed
                         ELSE InvalidResponse(LOGIN_URL, lastOutcome.text)
        /\ ret.exc.msg = LoginFailed <=> lastOutcome.status = 401
        /\ ret.exc.at = Len(sent)
        /\ \A i \in 1..Len(sent) : sent[i].url = LOGIN_URL
        /\ token = None

C9_Witness ==
    /\ lastSent.url = LOGIN_URL
    /\ lastOutcome.status = 400
    /\ ret.exc.msg = InvalidResponse(LOGIN_URL, Detail)
    /\ attempts_no = 2
    /\ attempt = 1
    /\ Len(sent) = 1
    /\ pc = "idle"

(* C10: logout() is invoked by the with-block exactly once, at the moment  *)
(* the body is left and on whichever path it is left: not before, and      *)
(* never a second time.                                                    *)
C10_LogoutOnExit ==
    /\ scope \in {"none", "body"} => exitLogouts = 0
    /\ scope \in {"exiting", "exited"} => (exitLogouts = 1 /\ exitPath \in ExitPaths)
    /\ scope = "exiting" => op.name = "logout"

C10_Witness ==
    /\ scope = "exited"
    /\ exitPath = "failed login"
    /\ exitLogouts = 1
    /\ op.name = "logout"

(* C11: in token mode logout() is a post to auth/logout expecting 200: the *)
(* only call it sends besides a login goes to auth/logout, and it returns  *)
(* only on a 200.  In basic-auth mode logout() returns None at once and    *)
(* puts nothing on the wire, however often it is called; a basic-auth      *)
(* client never enters a login, never sends a login call and never holds   *)
(* a token.                                                                *)
C11_Logout ==
    [][ /\ (auth_using_token /\ op'.name = "logout") =>
               /\ op' = LogoutOp
               /\ (pc = "send" /\ Len(sent') = Len(sent) + 1) =>
                      lastSent'.url = LOGOUT_URL
               /\ (pc' = "idle" /\ ret'.kind = "ok") =>
                      (lastSent'.url = LOGOUT_URL /\ lastOutcome'.status = 200)
        /\ ~auth_using_token =>
               /\ token' = None
               /\ pc' # "login"
               /\ lastSent'.url # LOGIN_URL
               /\ op'.name = "logout" =>
                      /\ pc' = "idle"
                      /\ ret' = ReturnedNone
                      /\ sent' = <<>>
                      /\ lastSent' = lastSent ]_vars

C11_Witness ==
    /\ ~auth_using_token
    /\ scope = "body"
    /\ op.name = "logout"
    /\ ret = ReturnedNone
    /\ lastSent.url = OBJ_URL
    /\ token = None

(* C12: once logout() has returned successfully in token mode the client   *)
(* holds no token any more.                                                *)
C12_TokenDestroyed ==
    (auth_using_token /\ pc = "idle" /\ op.name = "logout" /\ ret.kind = "ok") =>
        token = None

(* C13: get_paginated called with sideloads and a query that already holds *)
(* "sideload" raises "sideloading cannot be specified both in query and    *)
(* sideloads" at once: no login is entered, nothing is put on the wire,    *)
(* and the token, the configuration and the caller's query are as before.  *)
C13_AmbiguousSideloading ==
    [][ (/\ pc = "idle"
         /\ op'.name = "get_paginated"
         /\ args'.sideloads # <<>>
         /\ args'.query.sideload.present) =>
            /\ pc' = "idle"
            /\ ret'.kind = "raised"
            /\ ret'.exc.msg = AmbiguousSideloading
            /\ sent' = <<>>
            /\ lastSent' = lastSent
            /\ callerQuery' = args'.query
            /\ UNCHANGED <<auth_using_token, attempts_no, token, lastLogin, scope>> ]_vars

C13_Witness ==
    /\ pc = "idle"
    /\ op.name = "get_paginated"
    /\ args.sideloads = <<WORKSPACES>>
    /\ callerQuery = Query(Param(<<"workspaces">>), Absent)
    /\ ret.exc.msg = AmbiguousSideloading
    /\ sent = <<>>
    /\ token # None
    /\ lastSent.url = OBJ_URL

(* A sideloading function has been called in the scenario *)
Called(what) == scenario = what /\ Len(raised) >= 1

(* What the last sideloading call raised *)
LastRaised == raised[Len(raised)]

(* The fields of a record the descriptor of the last call names *)
SingularOf(rec) == rec[theSideload.singular]
PluralOf(rec) == rec[theSideload.plural]

(* The record holds one reference under the singular field *)
HoldsReference(rec) == SingularOf(rec).tag = "str"

(* The record holds a list of references under the plural field and has    *)
(* no singular field                                                       *)
HoldsReferences(rec) ==
    /\ SingularOf(rec).tag = "missing"
    /\ PluralOf(rec).tag = "list"
    /\ \A k \in 1..Len(PluralOf(rec).items) : PluralOf(rec).items[k].tag = "str"

(* The records the last resolution was given, and the related objects *)
Given == before.response.results
Related == before.response[theSideload.plural]

(* Every record before the i-th held references, so the i-th was injected *)
Reached(i) == \A j \in 1..(i - 1) : HoldsReference(Given[j]) \/ HoldsReferences(Given[j])

(* C14: for a descriptor with the default mapping, every record holding    *)
(* one reference under the singular field has it replaced by the related   *)
(* object whose url equals the reference when there is one among the       *)
(* related objects, and by the empty dict {} when there is none; a         *)
(* resolution over records that all hold one reference raises nothing.     *)
C14_SingularInjection ==
    Called("resolve") =>
        /\ theSideload.class = "Sideload" =>
               \A i \in 1..Len(Given) :
                   (HoldsReference(Given[i]) /\ Reached(i)) =>
                       LET ref == SingularOf(Given[i]).url
                           new == SingularOf(theResponse.results[i])
                       IN  IF \E k \in 1..Len(Related) : Related[k].url = ref
                           THEN In(new, Related) /\ new.url = ref
                           ELSE new = EmptyDict
        /\ (\A i \in 1..Len(Given) : HoldsReference(Given[i])) => LastRaised = None

C14_Witness ==
    /\ Called("resolve")
    /\ raised = <<None>>
    /\ theSideload = TESTS
    /\ Related = <<Dict(<<"tests", "1">>, "test")>>
    /\ Given = <<Record(Missing, Missing, Str(<<"tests", "1">>)),
                 Record(Missing, Missing, Str(<<"tests", "2">>))>>
    /\ theResponse.results = <<Record(Missing, Missing, Dict(<<"tests", "1">>, "test")),
                               Record(Missing, Missing, EmptyDict)>>

(* C15: every record holding a list of references under the plural field, *)
(* and no singular field, has the list replaced by the objects the mapping *)
(* holds for those of its references that are keys of the mapping, in the  *)
(* order of the references; references that are no key are dropped, and a  *)
(* resolution over such records raises nothing.                            *)
C15_PluralInjection ==
    Called("resolve") =>
        /\ \A i \in 1..Len(Given) :
               (HoldsReferences(Given[i]) /\ Reached(i)) =>
                   LET sideloaded_dicts == get_mapping(theSideload, Related)
                       found == SelectSeq(PluralOf(Given[i]).items,
                                          LAMBDA ref : contains(sideloaded_dicts, ref.url))
                       new == PluralOf(theResponse.results[i])
                   IN  /\ new.tag = "list"
                       /\ Len(new.items) = Len(found)
                       /\ \A k \in 1..Len(found) :
                              new.items[k] = get(sideloaded_dicts, found[k].url, Missing)
        /\ (\A i \in 1..Len(Given) : HoldsReferences(Given[i])) => LastRaised = None

C15_Witness ==
    /\ Called("resolve")
    /\ raised = <<None>>
    /\ theSideload = TESTS
    /\ Related = <<Dict(<<"tests", "2">>, "test")>>
    /\ Given = <<Record(Missing, List(<<Str(<<"tests", "1">>), Str(<<"tests", "2">>)>>),
                        Missing),
                 Record(Missing, List(<<Str(<<"tests", "1">>)>>), Missing)>>
    /\ theResponse.results =
           <<Record(Missing, List(<<Dict(<<"tests", "2">>, "test")>>), Missing),
             Record(Missing, List(<<>>), Missing)>>

(* C16: the keys of the mapping Sideload.get_mapping returns are exactly   *)
(* the urls of the given objects, each once, and each url is mapped to the *)
(* last of the given objects that carries it.                              *)
C16_LastWins ==
    (Called("mapping") /\ theSideload.class = "Sideload") =>
        /\ {theMapping[k].key : k \in 1..Len(theMapping)}
               = {theObjects[i].url : i \in 1..Len(theObjects)}
        /\ \A k, l \in 1..Len(theMapping) :
               theMapping[k].key = theMapping[l].key => k = l
        /\ \A k \in 1..Len(theMapping) :
               \E i \in 1..Len(theObjects) :
                   /\ theMapping[k].value = theObjects[i]
                   /\ theObjects[i].url = theMapping[k].key
                   /\ \A j \in (i + 1)..Len(theObjects) :
                          theObjects[j].url # theMapping[k].key

C16_Witness ==
    /\ Called("mapping")
    /\ theSideload = TESTS
    /\ theObjects = <<Dict(<<"tests", "1">>, "test"), Dict(<<"tests", "2">>, "test"),
                      Dict(<<"tests", "1">>, "other")>>
    /\ theMapping = <<Item(<<"tests", "1">>, Dict(<<"tests", "1">>, "other")),
                      Item(<<"tests", "2">>, Dict(<<"tests", "2">>, "test"))>>

(* The url without its trailing path segment *)
ParentKey(url) == SubSeq(url, 1, Len(url) - 1)

(* C17: Content.get_mapping maps each parent key, the url of a given       *)
(* object without its trailing path segment, to the list of all given      *)
(* objects with that parent key, in the order given; each parent key       *)
(* occurs once, so every given object is in exactly one list.              *)
C17_GroupedByParent ==
    (Called("mapping") /\ theSideload.class = "Content") =>
        /\ {theMapping[k].key : k \in 1..Len(theMapping)}
               = {ParentKey(theObjects[i].url) : i \in 1..Len(theObjects)}
        /\ \A k, l \in 1..Len(theMapping) :
               theMapping[k].key = theMapping[l].key => k = l
        /\ \A k \in 1..Len(theMapping) :
               theMapping[k].value =
                   List(SelectSeq(theObjects,
                                  LAMBDA obj : ParentKey(obj.url) = theMapping[k].key))

C17_Witness ==
    /\ Called("mapping")
    /\ theSideload = CONTENT
    /\ theObjects = <<Dict(<<"tests", "2">>, "test"), Dict(<<"documents", "1">>, "test"),
                      Dict(<<"tests", "1">>, "other")>>
    /\ theMapping = <<Item(<<"tests">>, List(<<Dict(<<"tests", "2">>, "test"),
                                               Dict(<<"tests", "1">>, "other")>>)),
                      Item(<<"documents">>, List(<<Dict(<<"documents", "1">>, "test")>>))>>

(* The entries of a comma-joined query parameter *)
Entries(param) == _parse_query_array(get_array(param))

(* C18: setup_query leaves in "sideload" the entries that were there, in   *)
(* their order, followed by the plural name of the descriptor if it was    *)
(* not among them; a Content descriptor with schema ids likewise leaves in *)
(* "content.schema_id" the entries that were there followed by those of    *)
(* its schema ids that were not, each once; a Sideload descriptor leaves   *)
(* "content.schema_id" alone.  Calling setup_query of the same descriptor  *)
(* again changes nothing.                                                  *)
C18_SetupQuery ==
    (Called("query") /\ (theSideload.class = "Sideload" \/ theSideload.schema_ids # <<>>)) =>
        LET old == Entries(before.query.sideload)
            new == IF In(theSideload.plural, old) THEN old
                   ELSE Append(old, theSideload.plural)
            oldIds == Entries(before.query.schema_id)
            newIds == Entries(theQuery.schema_id)
            ids == Range(theSideload.schema_ids)
        IN  /\ theQuery.sideload = Param(new)
            /\ theSideload.class = "Sideload" => theQuery.schema_id = before.query.schema_id
            /\ theSideload.class = "Content" =>
                   /\ theQuery.schema_id = Param(newIds)
                   /\ SubSeq(newIds, 1, Len(oldIds)) = oldIds
                   /\ Range(newIds) = Range(oldIds) \cup ids
                   /\ Len(newIds) = Len(oldIds) + Cardinality(ids \ Range(oldIds))
            /\ setup_query(theSideload, theQuery) = theQuery

C18_Witness ==
    /\ Called("query")
    /\ Len(raised) = 2
    /\ theSideload = Content("content", "content", <<"order_id">>)
    /\ before.query = theQuery
    /\ theQuery = Query(Param(<<"modifiers", "content">>),
                        Param(<<"document_id", "order_id">>))

(* C19: setup_query of a Content descriptor without schema ids leaves the  *)
(* query as it was: no "sideload", no "content.schema_id" is added and no  *)
(* entry is changed.                                                       *)
C19_NoSchemaIds ==
    (Called("query") /\ theSideload.class = "Content" /\ theSideload.schema_ids = <<>>) =>
        theQuery = before.query

C19_Witness ==
    /\ Called("query")
    /\ raised = <<None>>
    /\ theSideload = CONTENT
    /\ theQuery = EmptyQuery

(* C20: a second resolution of a response whose first resolution raised    *)
(* nothing raises nothing and leaves every field of every record as the    *)
(* first resolution left it.                                               *)
C20_Idempotent ==
    (scenario = "resolve" /\ Len(raised) = 2 /\ raised[1] = None) =>
        (raised[2] = None /\ theResponse = before.response)

(* C26: the RossumException _request_url raises for an unexpected status   *)
(* carries the response, and its status_code is the status of that         *)
(* response, whatever the status.                                          *)
C26_StatusCode ==
    (/\ pc = "idle"
     /\ ret.kind = "raised"
     /\ ret.exc.cls = "RossumException"
     /\ ret.exc.at > 0
     /\ lastSent.url # LOGIN_URL) =>
        /\ ret.exc.status = lastOutcome.status
        /\ status_code(ret.exc) = lastOutcome.status

(* C28: an attempt that failed with a retried error is followed by another *)
(* attempt only while fewer than attempts_no attempts were made and less   *)
(* than StopDelay seconds have passed since the first attempt started, and *)
(* then wait_s seconds after the failure; otherwise the error is raised.   *)
(* The same holds for the attempts of the login inside get_token, counted  *)
(* from the start of that login.                                           *)
C28_StopRule ==
    [][ (lastOutcome'.kind = "exc" /\ lastOutcome'.cls \in RetriedTypes) =>
            /\ pc = "send" =>
                   /\ pc' \in {"idle", "auth"}
                   /\ pc' = "auth" =>
                          /\ attempt < attempts_no
                          /\ now' - wait_s < StopDelay
                          /\ now' - wait_s >= now
                          /\ attempt' = attempt + 1
                   /\ pc' = "idle" =>
                          /\ attempt >= attempts_no \/ now' >= StopDelay
                          /\ ret'.kind = "raised"
                          /\ ret'.exc.cls = lastOutcome'.cls
            /\ pc = "login" =>
                   /\ pc' = "login" =>
                          /\ lattempt < attempts_no
                          /\ now' - wait_s - lstart < StopDelay
                          /\ lattempt' = lattempt + 1
                   /\ pc' # "login" =>
                          lattempt >= attempts_no \/ now' - lstart >= StopDelay ]_vars

C28_Witness ==
    /\ pc = "idle"
    /\ ret.kind = "raised"
    /\ ret.exc.cls = "ConnectionError"
    /\ attempts_no = 2
    /\ attempt = 1
    /\ now >= StopDelay
    /\ Len(sent) = 1
    /\ lastSent.url = OBJ_URL

(* The values a query gives for one key: the elements of a list, or the one value *)
ValuesOf(value) == IF value.type = "list" THEN value.elements ELSE <<value>>

(* A value as the claim has it sent *)
SentAs(value) ==
    IF value.type = "bool"
    THEN Scalar("str", IF value.text = "True" THEN "true" ELSE "false")
    ELSE value

(* C29: every boolean of a query, alone or in a list, is sent as the        *)
(* lowercase string "true" or "false"; every other value is sent unchanged, *)
(* and the query keeps its keys.                                            *)
C29_EncodeBooleans ==
    (scenario = "booleans" /\ raised # <<>> /\ ~theArgument.is_none) =>
        /\ ~theResult.is_none
        /\ Len(theResult.entries) = Len(theArgument.entries)
        /\ \A i \in 1..Len(theArgument.entries) :
               /\ theResult.entries[i].key = theArgument.entries[i].key
               /\ theResult.entries[i].value =
                      [j \in 1..Len(ValuesOf(theArgument.entries[i].value)) |->
                           SentAs(ValuesOf(theArgument.entries[i].value)[j])]

C29_Witness ==
    /\ scenario = "booleans"
    /\ raised # <<>>
    /\ theArgument = SomeDict(<<Item("active", Scalar("bool", "True")),
                                Item("id", Iterable(<<Scalar("bool", "False"),
                                                      Scalar("str", "True")>>))>>)
    /\ theResult = SomeDict(<<Item("active", <<Scalar("str", "true")>>),
                              Item("id", <<Scalar("str", "false"),
                                           Scalar("str", "True")>>)>>)

(* C30: a descriptor built without a singular gets its plural without the   *)
(* final "s" (so singular + "s" = plural) when the plural ends in "s", and  *)
(* the plural itself otherwise; a given singular is kept.                   *)
C30_DefaultSingular ==
    (scenario = "descriptor" /\ raised # <<>>) =>
        IF theArgument.singular # NOT_SET
        THEN theResult.singular = theArgument.singular
        ELSE IF theArgument.plural # <<>>
                /\ theArgument.plural[Len(theArgument.plural)] = "s"
             THEN Append(theResult.singular, "s") = theArgument.plural
             ELSE theResult.singular = theArgument.plural

(* C27: nothing guards the check of the token against its assignment: a    *)
(* thread that found no token sends a login call of its own, whatever the  *)
(* other threads have done to the token since, so two threads making their *)
(* first request on one fresh client can both log in.                      *)
C27_CheckThenAct ==
    \A t \in DOMAIN threads :
        (auth_using_token /\ threads[t].saw = None
            /\ threads[t].at \in {"raised", "send", "header", "assign", "done"}) =>
            In(t, logins)

C27_Witness ==
    /\ auth_using_token
    /\ Len(logins) = 2
    /\ In(1, logins) /\ In(2, logins)
    /\ threads[1].saw = None /\ threads[2].saw = None
    /\ threads[1].at = "done" /\ threads[2].at = "done"

(* The step is a call of the named operation on the idle client *)
CallOf(what) == Callable /\ operation'.name = what

(* The called operation raised this validation error and made no request *)
Refused(message) ==
    /\ ret'.kind = "raised"
    /\ ret'.exc.cls = "RossumException"
    /\ ret'.exc.msg = message
    /\ pc' = "idle"
    /\ ~progress'.running
    /\ progress'.requests = 0
    /\ sent' = <<>>
    /\ UNCHANGED <<token, lastSent, lastLogin>>

(* The operation makes no request beyond its first *)
OneRequest(what) ==
    (progress.running /\ operation.name = what) =>
        (progress'.requests = 1 /\ op' = op /\ payload' = payload)

(* C21: upload_document raises a validation error before any request is    *)
(* sent (no login, no POST) when neither a file path nor file bytes is     *)
(* given, and when file bytes are given without a filename_overwrite;      *)
(* otherwise it posts one multipart upload to queues/<id>/upload.          *)
C21_UploadDocument ==
    [][/\ CallOf("upload_document") =>
              IF ~(truthy(operation'.file) \/ truthy(operation'.file_bytes))
              THEN Refused(NoFiles)
              ELSE IF truthy(operation'.file_bytes)
                      /\ ~truthy(operation'.filename_overwrite)
              THEN Refused(NeedFilename)
              ELSE /\ pc' = "auth"
                   /\ op'.method = "post"
                   /\ op'.url = Url("queues/5/upload", 0)
                   /\ payload'.kind = "files"
                   /\ progress'.running
                   /\ progress'.requests = 1
       /\ OneRequest("upload_document")]_vars

C21_Witness ==
    /\ operation.name = "upload_document"
    /\ operation.file_bytes = "%PDF"
    /\ operation.filename_overwrite = ""
    /\ auth_using_token
    /\ token = None
    /\ ret = Raised(RossumException(NeedFilename, 0, 0))
    /\ sent = <<>>
    /\ lastSent = NoCall

(* C22: create_inbox raises a validation error without any request when    *)
(* email_prefix and email are both absent or empty; otherwise it posts     *)
(* exactly one create request, whose body holds the email field only if an *)
(* email was given.                                                        *)
C22_CreateInbox ==
    [][/\ CallOf("create_inbox") =>
              IF ~(truthy(operation'.email_prefix) \/ truthy(operation'.email))
              THEN Refused(NoEmail)
              ELSE /\ pc' = "auth"
                   /\ op'.method = "post"
                   /\ op'.url = Url("inboxes", 0)
                   /\ payload'.kind = "data"
                   /\ payload'.has_email <=> truthy(operation'.email)
                   /\ payload'.has_email => payload'.email = operation'.email
                   /\ progress'.running
                   /\ progress'.requests = 1
       /\ OneRequest("create_inbox")]_vars

C22_Witness ==
    /\ operation.name = "create_inbox"
    /\ operation.email_prefix = "prefix"
    /\ operation.email = ""
    /\ ~progress.running
    /\ progress.requests = 1
    /\ ret.kind = "ok"
    /\ payload.kind = "data"
    /\ ~payload.has_email
    /\ Len(sent) > 0
    /\ sent[Len(sent)].url = Url("inboxes", 0)

(* C23: get_queue and get_workspace called without an ID return the        *)
(* unique object when the server lists exactly one, and raise "... ID must *)
(* be specified." when it lists none or more than one; called with an ID   *)
(* they fetch that object directly without listing.                        *)
C23_SingletonResolution ==
    [][\A what \in {"get_queue", "get_workspace"} :
           /\ CallOf(what) =>
                  /\ pc' = "auth"
                  /\ progress'.requests = 1
                  /\ IF operation'.id_ = None
                     THEN op'.name = "get_paginated"
                          /\ op'.url.path = (IF what = "get_queue" THEN "queues"
                                             ELSE "workspaces")
                     ELSE op'.name = "get"
                          /\ op'.url = Url(IF what = "get_queue" THEN "queues/5"
                                           ELSE "workspaces/5", 0)
           /\ (progress.running /\ operation.name = what /\ operation.id_ # None) =>
                  (progress'.requests = 1 /\ op' = op)
           /\ (progress.running /\ operation.name = what /\ operation.id_ = None
                  /\ ~progress'.running /\ ret.kind = "ok") =>
                  IF Len(served) = 1
                  THEN ret'.kind = "ok" /\ ret'.list = served
                  ELSE /\ ret'.kind = "raised"
                       /\ ret'.exc.cls = "RossumException"
                       /\ ret'.exc.msg = (IF what = "get_queue"
                                          THEN <<"Queue ID must be specified.">>
                                          ELSE <<"Workspace ID must be specified.">>)]_vars

C23_Witness ==
    /\ operation.name = "get_queue"
    /\ operation.id_ = None
    /\ ~progress.running
    /\ npages = 2
    /\ Len(served) = 2
    /\ ret = Raised(RossumException(<<"Queue ID must be specified.">>, 0, 0))

(* The last message delete has echoed *)
Reported(echoed, text, id_) ==
    /\ Len(echoed) = Len(progress.echoed) + 1
    /\ echoed[Len(echoed)].text = text
    /\ echoed[Len(echoed)].id_ = id_

(* delete goes on after its k-th target: with the next target if there is  *)
(* one, and returns otherwise                                              *)
GoesOn(k) ==
    IF k < Len(operation.to_delete)
    THEN /\ pc' = "auth"
         /\ progress'.running
         /\ progress'.requests = k + 1
         /\ op'.method = "delete"
         /\ op'.url = Url(TargetPath(operation.to_delete[k + 1]), 0)
    ELSE /\ pc' = "idle"
         /\ ~progress'.running
         /\ progress'.requests = k
         /\ ret' = ReturnedNone

(* C24: bulk delete attempts the targets one by one in order; an API error *)
(* on a target is reported and every later target is still attempted; any  *)
(* other exception on a target is reported and then raised to the caller,  *)
(* and no later target is attempted.                                       *)
C24_BulkDelete ==
    [][/\ (CallOf("delete") /\ operation'.to_delete # <<>>) =>
              /\ pc' = "auth"
              /\ progress'.requests = 1
              /\ op'.method = "delete"
              /\ op'.url = Url(TargetPath(operation'.to_delete[1]), 0)
       /\ (progress.running /\ operation.name = "delete" /\ pc # "idle") =>
              progress' = progress
       /\ (progress.running /\ operation.name = "delete" /\ pc = "idle") =>
              LET k == progress.requests IN
              IF ret.kind = "raised" /\ ret.exc.cls = "RossumException"
              THEN Reported(progress'.echoed, "caused", operation.to_delete[k])
                   /\ GoesOn(k)
              ELSE IF ret.kind = "raised"
              THEN /\ Reported(progress'.echoed, "caused an unexpected exception",
                               operation.to_delete[k])
                   /\ pc' = "idle"
                   /\ ~progress'.running
                   /\ progress'.requests = k
                   /\ sent' = sent
                   /\ ret'.kind = "raised"
                   /\ ret'.exc.cls = "RossumException"
                   /\ ret'.exc.msg = ret.exc.msg
              ELSE GoesOn(k)]_vars

C24_Witness ==
    /\ operation.name = "delete"
    /\ Len(operation.to_delete) = 2
    /\ ~progress.running
    /\ progress.requests = 2
    /\ Len(progress.echoed) = 1
    /\ progress.echoed[1].text = "caused"
    /\ progress.echoed[1].id_ = 1
    /\ lastSent.url = Url("hooks/2", 0)
    /\ lastOutcome.status = 204
    /\ ret = ReturnedNone

(* C25: poll_annotation fetches the annotation at a fixed interval and     *)
(* returns the first fetched snapshot for which the caller's predicate     *)
(* holds, making no fetch after it; when no snapshot satisfies the         *)
(* predicate within the budget of max_retries x sleep_secs it fails with a *)
(* timeout error: no fetch is made once the budget is used up.             *)
C25_PollAnnotation ==
    (operation.name = "poll_annotation" /\ progress.requests > 0) =>
        /\ (~progress.running /\ ret.kind = "ok") =>
               /\ Len(progress.fetched) = progress.requests
               /\ ret.text = progress.fetched[Len(progress.fetched)]
               /\ \A i \in 1..Len(progress.fetched) :
                      check_success(operation.check_success, progress.fetched[i])
                          <=> i = Len(progress.fetched)
        /\ (~progress.running /\ ret.kind = "raised"
               /\ ret.exc.cls = "TimeoutException") =>
               \A i \in 1..Len(progress.fetched) :
                   ~check_success(operation.check_success, progress.fetched[i])
        /\ progress.elapsed = (progress.requests - 1) * operation.sleep_secs
               \/ ~progress.running
        /\ progress.requests > 1 =>
               (progress.requests - 2) * operation.sleep_secs
                   < operation.max_retries * operation.sleep_secs

(* The login calls the running _request_url has made *)
LoginCalls == Len(sent) - EndpointCalls

(* The running _request_url has made no call to auth/logout *)
NoLogoutCall == \A i \in 1..Len(sent) : sent[i].url # LOGOUT_URL

(* C31: one request call sends at most max_attempts login calls in all,    *)
(* however often the login endpoint fails with a transient error.          *)
C31_LoginBound == LoginCalls <= attempts_no

(* C36: a login that fails (401, another refusal, a body without a key, or *)
(* transient errors until the retries are exhausted) caches nothing: the   *)
(* operation raises with token still None and the cached key of no login   *)
(* changed, and the next request of the client, finding no token, enters   *)
(* get_token again and puts a fresh login call on the wire.                *)
C36_FailedLoginCachesNothing ==
    [][ /\ (pc = "login" /\ pc' # "send") =>
               /\ token = None /\ token' = None
               /\ lastLogin' = lastLogin
        /\ (pc = "login" /\ pc' = "idle") =>
               /\ ret'.kind = "raised"
               /\ sent'[Len(sent')].url = LOGIN_URL
        /\ (pc = "auth" /\ auth_using_token /\ token = None) =>
               /\ pc' = "login"
               /\ lattempt' = 1
        /\ (pc = "login" /\ sent = <<>>) =>
               sent' = <<HttpCall(LOGIN_URL, NoAuth)>> ]_vars

C36_Witness ==
    /\ auth_using_token
    /\ token = None
    /\ lastSent.url = LOGIN_URL
    /\ lastOutcome.kind = "none"
    /\ op.name = "request"
    /\ pc = "login"
    /\ sent = <<>>

(* C37: in token mode logout() (called directly or by leaving the scope)   *)
(* on a client with no token logs in first: no call to auth/logout is sent *)
(* before a login has returned a key, and when the login fails logout()    *)
(* raises the error of the login without having called auth/logout.        *)
C37_LogoutLogsIn ==
    [][ op.name = "logout" =>
          /\ (pc = "auth" /\ token = None) => pc' = "login"
          /\ (pc = "login" /\ pc' = "idle") =>
                 /\ ret'.kind = "raised"
                 /\ ret'.exc.at = Len(sent')
                 /\ sent'[Len(sent')].url = LOGIN_URL
                 /\ \A i \in 1..Len(sent') : sent'[i].url # LOGOUT_URL
          /\ (pc = "send" /\ sent' # sent) =>
                 /\ token # None
                 /\ sent'[Len(sent')] = HttpCall(LOGOUT_URL, AuthOf(token)) ]_vars

C37_Witness ==
    /\ auth_using_token
    /\ op.name = "logout"
    /\ pc = "idle"
    /\ scope = "exited"
    /\ ret.kind = "ok"
    /\ Len(sent) = 2
    /\ sent[1] = HttpCall(LOGIN_URL, NoAuth)
    /\ sent[2].url = LOGOUT_URL
    /\ sent[2].auth.credentials = token


(* The fields a record may hold *)
Fields == {"content", "tests", "test"}

(* C39: a resolution leaves as many records as it was given, in the order  *)
(* given, and the related objects as they were; in a record it changes at  *)
(* most the singular field of the descriptor when the record has one, and  *)
(* at most the plural field when it has none; a record holding both a      *)
(* reference and a list of references has the reference replaced by an     *)
(* object and keeps the list.                                              *)
C39_OnlyNamedField ==
    Called("resolve") =>
        /\ Len(theResponse.results) = Len(Given)
        /\ theResponse.content = before.response.content
        /\ theResponse.tests = before.response.tests
        /\ \A i \in 1..Len(Given) :
               LET old == Given[i]
                   new == theResponse.results[i]
               IN  /\ \A field \in Fields :
                          new[field] # old[field] =>
                              IF SingularOf(old).tag = "missing"
                              THEN field = theSideload.plural
                              ELSE field = theSideload.singular
                   /\ (HoldsReference(old) /\ PluralOf(old).tag = "list" /\ Reached(i)) =>
                          /\ SingularOf(new).tag = "dict"
                          /\ SingularOf(new) # SingularOf(old)

C39_Witness ==
    /\ Called("resolve")
    /\ raised = <<None>>
    /\ theSideload = TESTS
    /\ Related = <<Dict(<<"tests", "1">>, "test"), Dict(<<"tests", "2">>, "test")>>
    /\ Given = <<Record(Missing, Missing, Str(<<"tests", "1">>)),
                 Record(Str(<<"documents">>), List(<<Str(<<"tests", "1">>)>>),
                        Str(<<"tests", "2">>))>>
    /\ theResponse.results =
           <<Record(Missing, Missing, Dict(<<"tests", "1">>, "test")),
             Record(Str(<<"documents">>), List(<<Str(<<"tests", "1">>)>>),
                    Dict(<<"tests", "2">>, "test"))>>

(* The record has neither the singular nor the plural field *)
HoldsNeither(rec) == SingularOf(rec).tag = "missing" /\ PluralOf(rec).tag = "missing"

(* C40: when the i-th record is the first with neither field of the        *)
(* descriptor, the resolution raises KeyError; the records before the i-th *)
(* hold the objects of their references and the i-th and all after it are  *)
(* as they were given.                                                     *)
C40_KeyErrorMidway ==
    Called("resolve") =>
        \A i \in 1..Len(Given) :
            (HoldsNeither(Given[i]) /\ Reached(i)) =>
                /\ LastRaised = "KeyError"
                /\ \A j \in 1..(i - 1) :
                       LET sideloaded_dicts == get_mapping(theSideload, Related)
                           new == theResponse.results[j]
                       IN  IF HoldsReference(Given[j])
                           THEN SingularOf(new) =
                                    get(sideloaded_dicts, SingularOf(Given[j]).url, EmptyDict)
                           ELSE /\ PluralOf(new).tag = "list"
                                /\ \A k \in 1..Len(PluralOf(new).items) :
                                       PluralOf(new).items[k].tag = "dict"
                /\ \A j \in i..Len(Given) : theResponse.results[j] = Given[j]

C40_Witness ==
    /\ Called("resolve")
    /\ raised = <<"KeyError">>
    /\ theSideload = TESTS
    /\ Related = <<Dict(<<"tests", "1">>, "test")>>
    /\ Given = <<Record(Str(<<"tests">>), Missing, Str(<<"tests", "1">>)),
                 Record(Missing, Missing, Missing),
                 Record(Str(<<"tests">>), Missing, Str(<<"tests", "1">>))>>
    /\ theResponse.results =
           <<Record(Str(<<"tests">>), Missing, Dict(<<"tests", "1">>, "test")),
             Record(Missing, Missing, Missing),
             Record(Str(<<"tests">>), Missing, Str(<<"tests", "1">>))>>


(* The lists the pages served so far hold under a key, joined in the order *)
(* of the pages                                                            *)
RECURSIVE Joined(_, _)
Joined(pages, key) ==
    IF pages = <<>> THEN <<>> ELSE Head(pages)[key] \o Joined(Tail(pages), key)

(* get_paginated has returned its list and total to its caller *)
PagedReturned == paging.pc = "done" /\ paging.ret.kind = "ok"

(* C32: get_paginated called with the Content descriptor that has no       *)
(* schema ids returns the records the pages served, every field (the       *)
(* content reference too) as it was served, that is, what the same call    *)
(* without sideloads returns.                                              *)
C32_ContentWithoutSchemaIds ==
    (PagedReturned /\ paging.sideloads = <<CONTENT>>) =>
        paging.ret.list = Joined(paging.pages, "results")

(* C33: while pages are being fetched no record of res is resolved and     *)
(* every list of res is the lists of the pages so far joined in page       *)
(* order; what a call with sideloads returns is the resolution of the      *)
(* joined results against the joined related objects of all pages, so a    *)
(* record whose test reference names an object served on any page holds    *)
(* that object, and {} when no page served it.                             *)
C33_ResolvedAfterLastPage ==
    /\ (paging.pc = "get" /\ paging.pages # <<>>) =>
           \A key \in {"results", "content", "tests"} :
               paging.res[key] = Joined(paging.pages, key)
    /\ (PagedReturned /\ paging.sideloads # <<>>) =>
           /\ \A key \in {"content", "tests"} :
                  paging.res[key] = Joined(paging.pages, key)
           /\ Len(paging.ret.list) = Len(Joined(paging.pages, "results"))
           /\ \A i \in 1..Len(paging.ret.list) :
                  LET old == Joined(paging.pages, "results")[i]
                      new == paging.ret.list[i]
                      related == Joined(paging.pages, paging.sideloads[1].plural)
                  IN  IF paging.sideloads[1].class = "Sideload"
                      THEN new = [old EXCEPT !.test = IF In(Related1, related)
                                                      THEN Related1 ELSE EmptyDict]
                      ELSE new.content =
                               get(get_mapping(paging.sideloads[1], related),
                                   old.content.url, EmptyDict)

C33_Witness ==
    /\ PagedReturned
    /\ paging.sideloads = <<TESTS>>
    /\ Len(paging.pages) = 2
    /\ paging.pages[1].results = <<Annotation>>
    /\ paging.pages[1].tests = <<>>
    /\ paging.pages[2].results = <<>>
    /\ paging.pages[2].tests = <<Related1>>
    /\ paging.ret.list = <<Record(Str(<<"tests">>), Missing, Related1)>>

(* C34: every step of get_paginated leaves one request per page received   *)
(* and one more while a page is awaited; the first request goes to the     *)
(* listing with the query, each later one to the next URL of the page      *)
(* before it and without a query; a page naming a next URL is always       *)
(* followed by a request to that URL, whether or not it was requested      *)
(* before, and the call returns only on a page whose next is null, the     *)
(* first such page.                                                        *)
C34_OneRequestPerPage ==
    [][ LET q == paging'
            n == Len(q.pages)
        IN  /\ q.pc = "get" => Len(q.requests) = n + 1
            /\ (q.pc = "done" /\ q.ret.kind = "ok") => Len(q.requests) = n
            /\ q.requests # <<>> =>
                   q.requests[1] = Get(PageUrl(q.path, 1), QueryArg(q.query))
            /\ \A k \in 2..Len(q.requests) :
                   q.requests[k] = Get(q.pages[k - 1].pagination.next, NoQueryArg)
            /\ \A k \in 1..(n - 1) : q.pages[k].pagination.next # NullUrl
            /\ (paging.pc = "get" /\ n > Len(paging.pages)) =>
                   IF q.pages[n].pagination.next = NullUrl
                   THEN q.pc = "done"
                   ELSE q.pc = "get" /\ q.requests[n + 1].url = q.pages[n].pagination.next
      ]_vars

C34_Witness ==
    /\ paging.pc = "get"
    /\ paging.given.given
    /\ Len(paging.pages) = 2
    /\ Len(paging.requests) = 3
    /\ paging.requests[2].url = PageUrl(ANNOTATIONS, 2)
    /\ paging.requests[3].url = paging.requests[1].url
    /\ ~paging.requests[3].query.given

(* The sum of the page counts of the listings fetched *)
RECURSIVE PagesOf(_)
PagesOf(fetched) ==
    IF fetched = <<>> THEN 0 ELSE Head(fetched).pages + PagesOf(Tail(fetched))

(* C35: a _sideload that has returned has fetched one listing for each     *)
(* sideload it was given, the listing of that sideload, and has sent as    *)
(* many requests as those listings had pages, however many records it was  *)
(* given; every listing it fetches is that of one of its sideloads.        *)
C35_OneFetchPerSideload ==
    /\ sideloading.pc = "running" =>
           \E i \in 1..Len(sideloading.sideloads) :
               paging.path = sideloading.sideloads[i].plural
    /\ (sideloading.pc = "done" /\ sideloading.ret.kind = "ok") =>
           /\ Len(sideloading.fetched) = Len(sideloading.sideloads)
           /\ \A i \in 1..Len(sideloading.fetched) :
                  sideloading.fetched[i].plural = sideloading.sideloads[i].plural
           /\ sideloading.requests = PagesOf(sideloading.fetched)

C35_Witness ==
    /\ sideloading.pc = "done"
    /\ sideloading.ret.kind = "ok"
    /\ Len(sideloading.objects) = 2
    /\ sideloading.sideloads = <<TESTS_OBJECT, CONTENT_OBJECT>>
    /\ sideloading.fetched = <<[plural |-> "tests", pages |-> 2],
                               [plural |-> "content", pages |-> 1]>>
    /\ sideloading.requests = 3
    /\ sideloading.ret.list[1].test = Related1

(* C38: whatever get_paginated does (refuse the call, fetch pages, fail,   *)
(* return), the mapping the caller passed as query holds the entries it    *)
(* held when it was passed.                                                *)
C38_CallerQueryKept == paging.given.given => paging.caller = paging.given.query

C38_Witness ==
    /\ PagedReturned
    /\ paging.given = QueryArg(Query(Absent, Param(<<"document_id">>)))
    /\ paging.sideloads = <<WITH_SCHEMA>>
    /\ paging.query = Query(Param(<<"content">>), Param(<<"document_id", "order_id">>))
    /\ paging.caller = Query(Absent, Param(<<"document_id">>))


====
